---- MODULE Spec2Model ----
(***************************************************************************)
(* Model of the trace data path of the collector:                          *)
(*   - receiver/otlpreceiver/trace/otlp.go : Receiver.Export, the ingress  *)
(*     status shim and sendToNextConsumer;                                 *)
(*   - consumer/pdata/trace.go : Traces (NewTraces, Clone, SpanCount,      *)
(*     TracesFromOtlpProtoBytes, ToOtlpProtoBytes) and SpanStatus.SetCode; *)
(*   - testbed/testbed/data_providers.go : the Resize call sites.          *)
(*                                                                         *)
(* An ExportTraceServiceRequest is modelled by its ResourceSpans field: a  *)
(* sequence of ResourceSpans records [ils], each a sequence of             *)
(* InstrumentationLibrarySpans records [spans], each a sequence of Span    *)
(* records [Code, DeprecatedCode] (the two fields of Span.Status).         *)
(***************************************************************************)
EXTENDS Integers, Sequences, FiniteSets, TLC

VARIABLES
    req,        \* receiver: the request message (storage shared with td)
    exported,   \* receiver: whether Export has returned for this message
    incoming,   \* receiver: the message as it was when Export was entered
    ingressed,  \* receiver: the message as it was when Export returned
    touched,    \* receiver: span positions SetCode was called on since Export
    obsLog,     \* receiver: the calls the last Export made, in order
    reexported, \* receiver: whether the last Export took the message exactly
                \*           as the Export before it had left it
    resp,       \* receiver: what the last Export returned
    heap,       \* pdata: address -> storage of one ExportTraceServiceRequest
    handles,    \* pdata: Traces handle name -> address of its orig
    lastOp,     \* pdata: the last operation applied through a handle
    wTree,      \* wire: the storage of the Traces handed to ToOtlpProtoBytes
    wBytes,     \* wire: the bytes in flight
    wDamage,    \* wire: what the transport did to the bytes
    wPhase,     \* wire: "built", "encoded" or "decoded"
    wResult,    \* wire: what TracesFromOtlpProtoBytes returned
    metric,     \* metrics: the Data field of one Metric (tag and payload)
    mPrev,      \* metrics: the data points the last SetDataType discarded
    mOp,        \* metrics: the last operation made on the Metric
    batchesGenerated,   \* testbed: the load generator's batch counter
    dataItemsGenerated, \* testbed: the load generator's data item counter
    options,    \* testbed: PerfTestDataProvider.options
    producers,  \* testbed: producer -> where its GenerateTraces call stands
    completed,  \* testbed: what the finished GenerateTraces calls returned
    dp,         \* testbed: the data provider under test (one of three kinds)
    files,      \* testbed: what loading the provider's input files yields
    lastCall,   \* testbed: the last call made on the provider and its result
    handed,     \* testbed: tally of the calls made and the batches returned
    fOptions,   \* processorhelper: the options NewFactory was passed, in order
    factory,    \* processorhelper: the factory NewFactory returned
    fCall       \* processorhelper: the last call made on the factory

recvVars == <<req, exported, incoming, ingressed, touched, obsLog, reexported,
              resp>>
treeVars == <<heap, handles, lastOp>>
wireVars == <<wTree, wBytes, wDamage, wPhase, wResult>>
metricVars == <<metric, mPrev, mOp>>
counterVars == <<batchesGenerated, dataItemsGenerated>>
perfVars == <<options, producers, completed>>
provVars == <<dp, files, lastCall, handed>>
factVars == <<fOptions, factory, fCall>>
genVars == <<metricVars, counterVars, perfVars, provVars, factVars>>
vars == <<recvVars, treeVars, wireVars, genVars>>

NULL == "NULL"

\* ------------------------------------------------------------------ bounds

\* Nodes (ResourceSpans + InstrumentationLibrarySpans + Spans) of a request.
MaxReqNodes == 4
\* Nodes of the storage behind one Traces handle when a clone is in play.
MaxTreeNodes == 3
\* Nodes of the tree a producer builds with Resize alone.
MaxSeqNodes == 10
\* Nodes of a tree that is encoded to the wire.
MaxWireNodes == 4

\* ------------------------------------------------------------- enum values

\* Enum values are the int32 numbers Go holds and the wire carries.
STATUS_CODE_UNSET == 0
STATUS_CODE_OK == 1
STATUS_CODE_ERROR == 2
StatusCodes == {STATUS_CODE_UNSET, STATUS_CODE_OK, STATUS_CODE_ERROR}

DEPRECATED_STATUS_CODE_OK == 0
\* Stands for every deprecated code other than OK and UNKNOWN_ERROR.
DEPRECATED_STATUS_CODE_CANCELLED == 1
DEPRECATED_STATUS_CODE_UNKNOWN_ERROR == 2
DeprecatedStatusCodes ==
    {DEPRECATED_STATUS_CODE_OK, DEPRECATED_STATUS_CODE_CANCELLED,
     DEPRECATED_STATUS_CODE_UNKNOWN_ERROR}

\* pdata.StatusCode mirrors otlptrace.Status_StatusCode value for value.
StatusCodeUnset == STATUS_CODE_UNSET
StatusCodeOk    == STATUS_CODE_OK
StatusCodeError == STATUS_CODE_ERROR

\* Every Status a span can arrive with.
Statuses == [Code : StatusCodes, DeprecatedCode : DeprecatedStatusCodes]

\* The Go zero value of a Span's status: both enums are 0.
ZeroSpan == [Code |-> STATUS_CODE_UNSET, DeprecatedCode |-> DEPRECATED_STATUS_CODE_OK]
ZeroILS  == [spans |-> <<>>]
ZeroRS   == [ils |-> <<>>]

\* ------------------------------------------------------------ tree helpers

RECURSIVE SumSeq(_)
SumSeq(s) == IF s = <<>> THEN 0 ELSE Head(s) + SumSeq(Tail(s))

ILSNodes(ilss) == Len(ilss) + SumSeq([j \in 1..Len(ilss) |-> Len(ilss[j].spans)])
NodeCount(rss) == Len(rss) + SumSeq([i \in 1..Len(rss) |-> ILSNodes(rss[i].ils)])

\* The positions <<i, j, k>> of the spans of a tree.
SpanPositions(rss) ==
    UNION {UNION {{<<i, j, k>> : k \in 1..Len(rss[i].ils[j].spans)} :
                    j \in 1..Len(rss[i].ils)} :
             i \in 1..Len(rss)}

SpanAt(rss, p) == rss[p[1]].ils[p[2]].spans[p[3]]

\* ------------------------------------------------------------- input sets

SpanLists(n, S) == UNION {[1..k -> S] : k \in 0..n}

RECURSIVE ILSLists(_, _)
ILSLists(n, S) ==
    {<<>>} \cup
    (IF n = 0 THEN {}
     ELSE UNION {{<<[spans |-> sp]>> \o rest : rest \in ILSLists(n - 1 - Len(sp), S)} :
                    sp \in SpanLists(n - 1, S)})

RECURSIVE RSLists(_, _)
RSLists(n, S) ==
    {<<>>} \cup
    (IF n = 0 THEN {}
     ELSE UNION {{<<[ils |-> il]>> \o rest : rest \in RSLists(n - 1 - ILSNodes(il), S)} :
                    il \in ILSLists(n - 1, S)})

\* The requests a sender can hand to Export.
Requests == RSLists(MaxReqNodes, Statuses)

\* ---------------------------------------------------------------- receiver

nil == "nil"
\* What the next consumer's ConsumeTraces can return.
ConsumerErrors == {"errPermanent", "errTransient"}
ConsumerOutcomes == {nil} \cup ConsumerErrors

\* Traces.SpanCount: the two nested loops over ResourceSpans and
\* InstrumentationLibrarySpans, adding Spans().Len() of each group.
SpanCountFirstGroupOnly(rss) ==
    SumSeq([i \in 1..Len(rss) |->
              IF Len(rss[i].ils) = 0 THEN 0 ELSE Len(rss[i].ils[1].spans)])

SpanCount(rss) ==
    SumSeq([i \in 1..Len(rss) |->
              SumSeq([j \in 1..Len(rss[i].ils) |-> Len(rss[i].ils[j].spans)])])

\* The body of the switch on span.Status.Code in Export.
ShimSpanKeepsDeprecated(span) ==
    CASE span.Code = STATUS_CODE_UNSET ->
            IF span.DeprecatedCode # DEPRECATED_STATUS_CODE_OK
            THEN [span EXCEPT !.Code = STATUS_CODE_ERROR]
            ELSE span
      [] span.Code = STATUS_CODE_OK ->
            [span EXCEPT !.DeprecatedCode = DEPRECATED_STATUS_CODE_OK]
      [] OTHER -> span

ShimSpanUnsetOnlyUnknown(span) ==
    CASE span.Code = STATUS_CODE_UNSET ->
            IF span.DeprecatedCode = DEPRECATED_STATUS_CODE_UNKNOWN_ERROR
            THEN [span EXCEPT !.Code = STATUS_CODE_ERROR]
            ELSE span
      [] span.Code = STATUS_CODE_OK ->
            [span EXCEPT !.DeprecatedCode = DEPRECATED_STATUS_CODE_OK]
      [] span.Code = STATUS_CODE_ERROR ->
            [span EXCEPT !.DeprecatedCode = DEPRECATED_STATUS_CODE_UNKNOWN_ERROR]
      [] OTHER -> span

ShimSpanUnsetBecomesOk(span) ==
    CASE span.Code = STATUS_CODE_UNSET ->
            IF span.DeprecatedCode # DEPRECATED_STATUS_CODE_OK
            THEN [span EXCEPT !.Code = STATUS_CODE_OK]
            ELSE span
      [] span.Code = STATUS_CODE_OK ->
            [span EXCEPT !.DeprecatedCode = DEPRECATED_STATUS_CODE_OK]
      [] span.Code = STATUS_CODE_ERROR ->
            [span EXCEPT !.DeprecatedCode = DEPRECATED_STATUS_CODE_UNKNOWN_ERROR]
      [] OTHER -> span

ShimSpan(span) ==
    CASE span.Code = STATUS_CODE_UNSET ->
            IF span.DeprecatedCode # DEPRECATED_STATUS_CODE_OK
            THEN [span EXCEPT !.Code = STATUS_CODE_ERROR]
            ELSE span
      [] span.Code = STATUS_CODE_OK ->
            [span EXCEPT !.DeprecatedCode = DEPRECATED_STATUS_CODE_OK]
      [] span.Code = STATUS_CODE_ERROR ->
            [span EXCEPT !.DeprecatedCode = DEPRECATED_STATUS_CODE_UNKNOWN_ERROR]
      [] OTHER -> span

\* The three nested range loops of Export: every span of the request.
ShimRequestFirstSpanOnly(rss) ==
    [i \in 1..Len(rss) |->
        [ils |-> [j \in 1..Len(rss[i].ils) |->
            [spans |-> [k \in 1..Len(rss[i].ils[j].spans) |->
                IF k = 1 THEN ShimSpan(rss[i].ils[j].spans[k])
                         ELSE rss[i].ils[j].spans[k]]]]]]

ShimRequest(rss) ==
    [i \in 1..Len(rss) |->
        [ils |-> [j \in 1..Len(rss[i].ils) |->
            [spans |-> [k \in 1..Len(rss[i].ils[j].spans) |->
                ShimSpan(rss[i].ils[j].spans[k])]]]]]

\* Receiver.sendToNextConsumer: the calls it makes, in order, and its return.
sendToNextConsumerDropsError(td, outcome) ==
    LET numSpans == SpanCount(td) IN
    IF numSpans = 0
    THEN [log |-> <<>>, err |-> nil]
    ELSE [log |-> <<[call |-> "StartTraceDataReceiveOp"],
                    [call |-> "ConsumeTraces", td |-> td, ret |-> outcome],
                    [call |-> "EndTraceDataReceiveOp", numSpans |-> numSpans,
                     err |-> outcome]>>,
          err |-> nil]

sendToNextConsumerEndsBeforeConsume(td, outcome) ==
    LET numSpans == SpanCount(td) IN
    IF numSpans = 0
    THEN [log |-> <<>>, err |-> nil]
    ELSE [log |-> <<[call |-> "StartTraceDataReceiveOp"],
                    [call |-> "EndTraceDataReceiveOp", numSpans |-> numSpans,
                     err |-> nil],
                    [call |-> "ConsumeTraces", td |-> td, ret |-> outcome]>>,
          err |-> outcome]

sendToNextConsumerNoShortCircuit(td, outcome) ==
    LET numSpans == SpanCount(td) IN
    [log |-> <<[call |-> "StartTraceDataReceiveOp"],
               [call |-> "ConsumeTraces", td |-> td, ret |-> outcome],
               [call |-> "EndTraceDataReceiveOp", numSpans |-> numSpans,
                err |-> outcome]>>,
     err |-> outcome]

sendToNextConsumer(td, outcome) ==
    LET numSpans == SpanCount(td) IN
    IF numSpans = 0
    THEN [log |-> <<>>, err |-> nil]
    ELSE [log |-> <<[call |-> "StartTraceDataReceiveOp"],
                    [call |-> "ConsumeTraces", td |-> td, ret |-> outcome],
                    [call |-> "EndTraceDataReceiveOp", numSpans |-> numSpans,
                     err |-> outcome]>>,
          err |-> outcome]

\* Receiver.Export on message r when the next consumer answers `outcome`:
\* the message after the shim (td wraps the same storage), the calls made
\* and the (response, error) pair returned.
ExportCall(r, outcome) ==
    LET td   == ShimRequest(r)
        sent == sendToNextConsumer(td, outcome)
    IN [req  |-> td,
        log  |-> sent.log \o <<[call |-> "return"]>>,
        resp |-> IF sent.err # nil
                 THEN [response |-> NULL, err |-> sent.err]
                 ELSE [response |-> "ExportTraceServiceResponse{}", err |-> nil]]

\* SpanStatus.SetCode(v) on one status.
SetCodeKeepsDeprecated(status, v) == [status EXCEPT !.Code = v]

SetCodeUnsetKeepsDeprecated(status, v) ==
    [Code |-> v,
     DeprecatedCode |->
        CASE v = StatusCodeOk -> DEPRECATED_STATUS_CODE_OK
          [] v = StatusCodeError -> DEPRECATED_STATUS_CODE_UNKNOWN_ERROR
          [] OTHER -> status.DeprecatedCode]

SetCode(status, v) ==
    [Code |-> v,
     DeprecatedCode |->
        CASE v \in {StatusCodeUnset, StatusCodeOk} -> DEPRECATED_STATUS_CODE_OK
          [] v = StatusCodeError -> DEPRECATED_STATUS_CODE_UNKNOWN_ERROR
          [] OTHER -> status.DeprecatedCode]

\* The tree with SetCode(v) applied to the span at position p.
SetCodeAt(rss, p, v) ==
    [rss EXCEPT ![p[1]].ils[p[2]].spans[p[3]] = SetCode(@, v)]

NoResponse == [response |-> NULL, err |-> NULL]
NoOp == [op |-> NULL]
\* A Go slice: nil (absent), or present with its elements (possibly none).
NilSlice == [present |-> FALSE, elems |-> <<>>]
\* The Traces{} value: no storage behind the handle.
NoTraces == [hasOrig |-> FALSE, orig |-> NilSlice]
NoResult == [td |-> NoTraces, err |-> NULL]
NoDamage == [kind |-> "none", at |-> 0]

RecvIdle ==
    /\ req = <<>> /\ exported = FALSE /\ incoming = <<>> /\ ingressed = <<>>
    /\ touched = {} /\ obsLog = <<>> /\ reexported = FALSE /\ resp = NoResponse
TreeIdle == heap = <<>> /\ handles = <<>> /\ lastOp = NoOp
WireIdle ==
    /\ wTree = NilSlice /\ wBytes = <<>> /\ wDamage = NoDamage
    /\ wPhase = "idle" /\ wResult = NoResult

\* The zero value of a Metric's Data field: no variant.
MetricDataTypeNone == "None"
ZeroMetric == [DataType |-> MetricDataTypeNone, dps |-> <<>>]
MetricIdle == metric = ZeroMetric /\ mPrev = <<>> /\ mOp = NoOp
CounterIdle == batchesGenerated = 0 /\ dataItemsGenerated = 0
PerfIdle ==
    options = [ItemsPerBatch |-> 0] /\ producers = <<>> /\ completed = <<>>
ProvIdle == dp = NoOp /\ files = NoOp /\ lastCall = NoOp /\ handed = NoOp
FactIdle == fOptions = <<>> /\ factory = NoOp /\ fCall = NoOp
GenIdle == MetricIdle /\ CounterIdle /\ PerfIdle /\ ProvIdle /\ FactIdle

\* A sender's message arrives; nothing has been exported yet.
InitReceiver ==
    /\ req \in Requests
    /\ exported = FALSE /\ incoming = <<>> /\ ingressed = <<>>
    /\ touched = {} /\ obsLog = <<>> /\ reexported = FALSE /\ resp = NoResponse
    /\ TreeIdle /\ WireIdle /\ GenIdle

\* One call of Receiver.Export on the message (a first export, or the
\* message re-exported to another collector).
Export ==
    \E outcome \in ConsumerOutcomes :
        LET c == ExportCall(req, outcome) IN
        /\ exported' = TRUE
        /\ incoming' = req
        /\ req' = c.req
        /\ ingressed' = c.req
        /\ touched' = {}
        /\ obsLog' = c.log
        /\ reexported' = (exported /\ touched = {})
        /\ resp' = c.resp
        /\ UNCHANGED <<treeVars, wireVars, genVars>>

\* A pipeline stage downstream of the receiver calls Status().SetCode(v) on
\* a span of the tree it was handed.
SetCodeDownstream ==
    /\ exported
    /\ \E p \in SpanPositions(req), v \in StatusCodes :
        /\ req' = SetCodeAt(req, p, v)
        /\ touched' = touched \cup {p}
    /\ UNCHANGED <<exported, incoming, ingressed, obsLog, reexported, resp,
                 treeVars, wireVars, genVars>>

NextReceiver == Export \/ SetCodeDownstream

SpecReceiver == InitReceiver /\ [][NextReceiver]_vars

\* ------------------------------------------------------- receiver: claims

\* Index of the first entry of the log that is the given call, 0 if none.
CallIndex(log, call) ==
    LET hits == {n \in 1..Len(log) : log[n].call = call}
    IN IF hits = {} THEN 0 ELSE CHOOSE n \in hits : \A m \in hits : n <= m

\* The deprecated code SetCode(v) installs.
DeprecatedFor(code) ==
    IF code = STATUS_CODE_ERROR
    THEN DEPRECATED_STATUS_CODE_UNKNOWN_ERROR
    ELSE DEPRECATED_STATUS_CODE_OK

\* C1: after Export, every span that arrived with code OK has deprecated
\* code OK, every span that arrived with code ERROR has deprecated code
\* UNKNOWN_ERROR, whatever deprecated code it arrived with, and in both
\* cases the code itself is what it was on arrival.
C1_IngressCurrentSet ==
    exported =>
        \A p \in SpanPositions(incoming) :
            LET a == SpanAt(incoming, p)
                b == SpanAt(ingressed, p)
            IN /\ a.Code = STATUS_CODE_OK =>
                    /\ b.DeprecatedCode = DEPRECATED_STATUS_CODE_OK
                    /\ b.Code = STATUS_CODE_OK
               /\ a.Code = STATUS_CODE_ERROR =>
                    /\ b.DeprecatedCode = DEPRECATED_STATUS_CODE_UNKNOWN_ERROR
                    /\ b.Code = STATUS_CODE_ERROR

\* An exported request holding a span that arrived (OK, UNKNOWN_ERROR) and
\* a span that arrived (ERROR, OK): both deprecated codes were overwritten.
C1_Witness ==
    /\ exported
    /\ \E p, q \in SpanPositions(incoming) :
        /\ SpanAt(incoming, p) = [Code |-> STATUS_CODE_OK,
              DeprecatedCode |-> DEPRECATED_STATUS_CODE_UNKNOWN_ERROR]
        /\ SpanAt(ingressed, p).DeprecatedCode = DEPRECATED_STATUS_CODE_OK
        /\ SpanAt(incoming, q) = [Code |-> STATUS_CODE_ERROR,
              DeprecatedCode |-> DEPRECATED_STATUS_CODE_OK]
        /\ SpanAt(ingressed, q).DeprecatedCode = DEPRECATED_STATUS_CODE_UNKNOWN_ERROR

\* C2: after Export, every span that arrived with code UNSET still has code
\* UNSET if its deprecated code was OK, and has code ERROR if its deprecated
\* code was anything else; its deprecated code is what it was on arrival.
C2_IngressCurrentUnset ==
    exported =>
        \A p \in SpanPositions(incoming) :
            LET a == SpanAt(incoming, p)
                b == SpanAt(ingressed, p)
            IN a.Code = STATUS_CODE_UNSET =>
                /\ b.Code = IF a.DeprecatedCode = DEPRECATED_STATUS_CODE_OK
                            THEN STATUS_CODE_UNSET
                            ELSE STATUS_CODE_ERROR
                /\ b.DeprecatedCode = a.DeprecatedCode

\* An exported request holding an UNSET span recovered to ERROR from
\* UNKNOWN_ERROR, one recovered from another deprecated code, and one left
\* UNSET because its deprecated code was OK.
C2_Witness ==
    /\ exported
    /\ \E p, q \in SpanPositions(incoming) :
        /\ SpanAt(incoming, p).Code = STATUS_CODE_UNSET
        /\ SpanAt(incoming, p).DeprecatedCode \in
              {DEPRECATED_STATUS_CODE_UNKNOWN_ERROR, DEPRECATED_STATUS_CODE_CANCELLED}
        /\ SpanAt(ingressed, p).Code = STATUS_CODE_ERROR
        /\ SpanAt(incoming, q) = ZeroSpan
        /\ SpanAt(ingressed, q).Code = STATUS_CODE_UNSET

\* C3 as stated: once Export has returned, no later SetCode call changes a
\* span's deprecated code from the value it had when ingress finished.
C3_DeprecatedFrozenAfterIngress ==
    exported =>
        \A p \in SpanPositions(req) :
            SpanAt(req, p).DeprecatedCode = SpanAt(ingressed, p).DeprecatedCode

\* C3 amended: the ingress shim acts only inside Export, so a span no
\* SetCode call has touched since Export returned still has the status
\* ingress gave it; but every SetCode(v) call rewrites the deprecated code
\* itself, so a touched span has the deprecated code its current code
\* dictates (OK for UNSET and OK, UNKNOWN_ERROR for ERROR), whatever it was
\* when ingress finished.
C3_DeprecatedFollowsSetCode ==
    exported =>
        \A p \in SpanPositions(req) :
            IF p \in touched
            THEN SpanAt(req, p).DeprecatedCode = DeprecatedFor(SpanAt(req, p).Code)
            ELSE SpanAt(req, p) = SpanAt(ingressed, p)

\* A span SetCode was called on after ingress, whose deprecated code is no
\* longer the one it had when ingress finished, beside an untouched span.
C3_Witness ==
    /\ exported
    /\ \E p \in touched :
        SpanAt(req, p).DeprecatedCode # SpanAt(ingressed, p).DeprecatedCode
    /\ \E q \in SpanPositions(req) : q \notin touched

\* C4 as stated: whenever Export returned a nil error, ConsumeTraces was
\* invoked with the tree built from the request and returned nil before
\* Export returned.
C4_SuccessImpliesConsumed ==
    (exported /\ resp.err = nil) =>
        LET c == CallIndex(obsLog, "ConsumeTraces") IN
        /\ c > 0
        /\ obsLog[c].td = ingressed
        /\ obsLog[c].ret = nil
        /\ c < CallIndex(obsLog, "return")

\* C4 amended: whenever Export returned a nil error for a request whose
\* tree has SpanCount() > 0, ConsumeTraces was invoked with that tree and
\* returned nil before Export returned; for a tree with SpanCount() = 0
\* Export returns a nil error without invoking ConsumeTraces at all.
C4_SuccessImpliesConsumedUnlessEmpty ==
    (exported /\ resp.err = nil) =>
        LET c == CallIndex(obsLog, "ConsumeTraces") IN
        IF Cardinality(SpanPositions(ingressed)) > 0
        THEN /\ c > 0
             /\ obsLog[c].td = ingressed
             /\ SpanPositions(obsLog[c].td) = SpanPositions(incoming)
             /\ obsLog[c].ret = nil
             /\ c < CallIndex(obsLog, "return")
             /\ resp.response # NULL
        ELSE /\ c = 0
             /\ resp.response # NULL

\* Export has returned success for a request with spans, after the consumer
\* took the tree and returned nil.
C4_Witness ==
    /\ exported /\ resp.err = nil
    /\ Cardinality(SpanPositions(ingressed)) > 1
    /\ CallIndex(obsLog, "ConsumeTraces") > 0
    /\ obsLog[CallIndex(obsLog, "ConsumeTraces")].ret = nil

\* C5: if ConsumeTraces returned an error e, Export returned a nil response
\* together with exactly e, and EndTraceDataReceiveOp was recorded with the
\* span count and e after ConsumeTraces returned and before Export returned.
C5_ErrorPropagated ==
    exported =>
        LET c == CallIndex(obsLog, "ConsumeTraces")
            e == CallIndex(obsLog, "EndTraceDataReceiveOp")
        IN (c > 0 /\ obsLog[c].ret # nil) =>
            /\ resp = [response |-> NULL, err |-> obsLog[c].ret]
            /\ c < e
            /\ e < CallIndex(obsLog, "return")
            /\ obsLog[e].numSpans = Cardinality(SpanPositions(ingressed))
            /\ obsLog[e].err = obsLog[c].ret

\* Export has returned the consumer's error for a request with two spans.
C5_Witness ==
    /\ exported
    /\ resp.err \in ConsumerErrors
    /\ CallIndex(obsLog, "ConsumeTraces") > 0
    /\ CallIndex(obsLog, "EndTraceDataReceiveOp") > 0
    /\ obsLog[CallIndex(obsLog, "EndTraceDataReceiveOp")].numSpans = 2

\* C14: every SetCode(v) call leaves the span it is made on with code v and
\* with deprecated code OK for v in {Unset, Ok}, UNKNOWN_ERROR for v = Error,
\* whatever pair the span held before the call (any pair ingress can leave,
\* any pair an earlier SetCode left) and leaves every other span alone; so
\* the pair after a sequence of calls is that of the last call.
C14_SetCodeDeterminesPair ==
    [][touched' # {} =>
        \E p \in touched', v \in StatusCodes :
            req' = [req EXCEPT ![p[1]].ils[p[2]].spans[p[3]] =
                      [Code |-> v,
                       DeprecatedCode |->
                          IF v = StatusCodeError
                          THEN DEPRECATED_STATUS_CODE_UNKNOWN_ERROR
                          ELSE DEPRECATED_STATUS_CODE_OK]]
      ]_vars

\* SetCode(Unset) was called on a span ingress had left as (ERROR,
\* CANCELLED); the span now holds (UNSET, OK).
C14_Witness ==
    /\ exported
    /\ \E p \in touched :
        /\ SpanAt(ingressed, p) = [Code |-> STATUS_CODE_ERROR,
                DeprecatedCode |-> DEPRECATED_STATUS_CODE_CANCELLED]
        /\ SpanAt(req, p) = [Code |-> STATUS_CODE_UNSET,
                DeprecatedCode |-> DEPRECATED_STATUS_CODE_OK]

\* The entries of the log that are the given call.
Calls(log, call) == {n \in 1..Len(log) : log[n].call = call}

\* C16: every span of the tree handed to ConsumeTraces has a consistent
\* status pair: code UNSET or OK with deprecated code OK, or code ERROR with
\* a deprecated code other than OK; this holds for all spans of the request
\* at the moment ConsumeTraces is invoked, whatever pair each arrived with.
C16_DeliveredPairsConsistent ==
    \A c \in Calls(obsLog, "ConsumeTraces") :
        /\ SpanPositions(obsLog[c].td) = SpanPositions(incoming)
        /\ \A p \in SpanPositions(obsLog[c].td) :
            LET st == SpanAt(obsLog[c].td, p) IN
            \/ /\ st.Code \in {STATUS_CODE_UNSET, STATUS_CODE_OK}
               /\ st.DeprecatedCode = DEPRECATED_STATUS_CODE_OK
            \/ /\ st.Code = STATUS_CODE_ERROR
               /\ st.DeprecatedCode # DEPRECATED_STATUS_CODE_OK

\* ConsumeTraces was handed a tree of two spans that arrived inconsistent:
\* one as (OK, UNKNOWN_ERROR), one as (ERROR, OK).
C16_Witness ==
    /\ Calls(obsLog, "ConsumeTraces") # {}
    /\ \E p, q \in SpanPositions(incoming) :
        /\ p # q
        /\ SpanAt(incoming, p) = [Code |-> STATUS_CODE_OK,
                DeprecatedCode |-> DEPRECATED_STATUS_CODE_UNKNOWN_ERROR]
        /\ SpanAt(incoming, q) = [Code |-> STATUS_CODE_ERROR,
                DeprecatedCode |-> DEPRECATED_STATUS_CODE_OK]

\* C17 as stated: a message passed through Export a second time, exactly as
\* the first pass left it, comes out with every code and every deprecated
\* code unchanged.
C17_ShimIdempotent ==
    reexported => ingressed = incoming

\* C17 amended: a second pass never changes a code, and changes a
\* deprecated code only on a span the pass before left as ERROR with a
\* deprecated code other than OK and UNKNOWN_ERROR (what the shim makes of
\* UNSET with such a deprecated code), which it rewrites to UNKNOWN_ERROR.
C17_ShimStableExceptRecovered ==
    reexported =>
        /\ SpanPositions(ingressed) = SpanPositions(incoming)
        /\ \A p \in SpanPositions(incoming) :
            LET a == SpanAt(incoming, p)
                b == SpanAt(ingressed, p)
            IN /\ b.Code = a.Code
               /\ IF /\ a.Code = STATUS_CODE_ERROR
                     /\ a.DeprecatedCode \notin
                            {DEPRECATED_STATUS_CODE_OK,
                             DEPRECATED_STATUS_CODE_UNKNOWN_ERROR}
                  THEN b.DeprecatedCode = DEPRECATED_STATUS_CODE_UNKNOWN_ERROR
                  ELSE b.DeprecatedCode = a.DeprecatedCode

\* A second pass has run on a message holding a span the first pass left as
\* (ERROR, CANCELLED) next to one it left as (OK, OK).
C17_Witness ==
    /\ reexported
    /\ \E p, q \in SpanPositions(incoming) :
        /\ SpanAt(incoming, p) = [Code |-> STATUS_CODE_ERROR,
                DeprecatedCode |-> DEPRECATED_STATUS_CODE_CANCELLED]
        /\ SpanAt(ingressed, p) = [Code |-> STATUS_CODE_ERROR,
                DeprecatedCode |-> DEPRECATED_STATUS_CODE_UNKNOWN_ERROR]
        /\ SpanAt(incoming, q) = [Code |-> STATUS_CODE_OK,
                DeprecatedCode |-> DEPRECATED_STATUS_CODE_OK]
        /\ SpanAt(ingressed, q) = SpanAt(incoming, q)

\* C18: for a tree with SpanCount() = 0 Export makes no call at all (no
\* StartTraceDataReceiveOp, no ConsumeTraces, no EndTraceDataReceiveOp) and
\* returns an empty response with a nil error; for a tree with
\* SpanCount() > 0 it makes each of the three calls exactly once, in the
\* order Start, Consume, End.
C18_EmptyShortCircuit ==
    exported =>
        LET s == Calls(obsLog, "StartTraceDataReceiveOp")
            c == Calls(obsLog, "ConsumeTraces")
            e == Calls(obsLog, "EndTraceDataReceiveOp")
        IN IF SpanCount(ingressed) = 0
           THEN /\ s = {} /\ c = {} /\ e = {}
                /\ obsLog = <<[call |-> "return"]>>
                /\ resp = [response |-> "ExportTraceServiceResponse{}",
                           err |-> nil]
           ELSE /\ Cardinality(s) = 1 /\ Cardinality(c) = 1
                /\ Cardinality(e) = 1
                /\ \A x \in s, y \in c, z \in e : x < y /\ y < z

\* Export has returned for a request that has groups but no span.
C18_Witness ==
    /\ exported
    /\ incoming # <<>>
    /\ SpanCount(ingressed) = 0
    /\ obsLog = <<[call |-> "return"]>>
    /\ resp.err = nil

\* ------------------------------------------------------------------- pdata

\* The names a Traces value is held under: td, a by-value copy of td
\* (copy := td) and the result of td.Clone().
HandleNames == {"td", "copy", "clone"}
\* A handle that holds nothing yet.
NoAddr == 0

\* NewTraces: storage of a fresh, empty ExportTraceServiceRequest.
NewTraces == <<>>

\* S.Resize(n) on a sequence: the first min(Len, n) elements kept, growth
\* filled with the element type's zero value.
ResizeSlice(s, n, zero) == [i \in 1..n |-> IF i <= Len(s) THEN s[i] ELSE zero]

\* td.ResourceSpans().Resize(n)
ResizeResourceSpans(rss, n) == ResizeSlice(rss, n, ZeroRS)

\* td.ResourceSpans().At(i).InstrumentationLibrarySpans().Resize(n)
ResizeInstrumentationLibrarySpans(rss, i, n) ==
    [rss EXCEPT ![i].ils = ResizeSlice(@, n, ZeroILS)]

\* ilss.At(j).Spans().Resize(n), ilss the groups of ResourceSpans i
ResizeSpansOffByOne(rss, i, j, n) ==
    [rss EXCEPT ![i].ils[j].spans = ResizeSlice(@, n + 1, ZeroSpan)]

ResizeSpans(rss, i, j, n) ==
    [rss EXCEPT ![i].ils[j].spans = ResizeSlice(@, n, ZeroSpan)]

\* ResourceSpansSlice.CopyTo(dest): dest receives a deep copy of every
\* element; nothing of the source's storage is shared.
CopyTo(src, dest) == [i \in 1..Len(src) |-> src[i]]

\* Traces.Clone on the handle at address a of heap hp: the heap with the
\* clone's storage allocated after it, and the clone's address.
CloneSharesStorage(hp, a) == [heap |-> Append(hp, hp[a]), addr |-> a]

Clone(hp, a) ==
    LET cloneTd == NewTraces
    IN [heap |-> Append(hp, CopyTo(hp[a], cloneTd)), addr |-> Len(hp) + 1]

\* The tree observable through handle h.
Observed(h) == heap[handles[h]]
Held(h) == handles[h] # NoAddr

\* td := NewTraces()
InitTree ==
    /\ heap = <<NewTraces>>
    /\ handles = [h \in HandleNames |-> IF h = "td" THEN 1 ELSE NoAddr]
    /\ lastOp = NoOp
    /\ RecvIdle /\ WireIdle /\ GenIdle

\* copy := td, a plain by-value copy of the Traces struct (its orig pointer).
CopyHandle ==
    /\ handles' = [handles EXCEPT !["copy"] = handles["td"]]
    /\ lastOp' = [op |-> "Copy"]
    /\ UNCHANGED <<heap, recvVars, wireVars, genVars>>

\* clone := td.Clone(). Storage of an earlier clone is no longer reachable
\* and is dropped.
CloneTraces ==
    LET live == SubSeq(heap, 1, 1)
        c    == Clone(live, handles["td"])
    IN /\ heap' = c.heap
       /\ handles' = [handles EXCEPT !["clone"] = c.addr]
       /\ lastOp' = [op |-> "Clone"]
       /\ UNCHANGED <<recvVars, wireVars, genVars>>

\* The storage behind handle h becomes tree t, of at most `budget` nodes.
Store(h, t, budget) ==
    /\ NodeCount(t) <= budget
    /\ heap' = [heap EXCEPT ![handles[h]] = t]

\* h.ResourceSpans().Resize(n)
TreeResizeResourceSpans ==
    \E h \in HandleNames, n \in 0..MaxTreeNodes :
        /\ Held(h)
        /\ Store(h, ResizeResourceSpans(Observed(h), n), MaxTreeNodes)
        /\ lastOp' = [op |-> "Resize", via |-> h, level |-> "ResourceSpans",
                      path |-> <<>>, n |-> n, before |-> Observed(h)]
        /\ UNCHANGED <<handles, recvVars, wireVars, genVars>>

\* h.ResourceSpans().At(i).InstrumentationLibrarySpans().Resize(n)
TreeResizeInstrumentationLibrarySpans ==
    \E h \in HandleNames, n \in 0..MaxTreeNodes :
        /\ Held(h)
        /\ \E i \in 1..Len(Observed(h)) :
            /\ Store(h, ResizeInstrumentationLibrarySpans(Observed(h), i, n),
                     MaxTreeNodes)
            /\ lastOp' = [op |-> "Resize", via |-> h,
                          level |-> "InstrumentationLibrarySpans",
                          path |-> <<i>>, n |-> n, before |-> Observed(h)[i].ils]
        /\ UNCHANGED <<handles, recvVars, wireVars, genVars>>

\* h.ResourceSpans().At(i).InstrumentationLibrarySpans().At(j).Spans().Resize(n)
TreeResizeSpans ==
    \E h \in HandleNames, n \in 0..MaxTreeNodes :
        /\ Held(h)
        /\ \E i \in 1..Len(Observed(h)) :
            \E j \in 1..Len(Observed(h)[i].ils) :
                /\ Store(h, ResizeSpans(Observed(h), i, j, n), MaxTreeNodes)
                /\ lastOp' = [op |-> "Resize", via |-> h, level |-> "Spans",
                              path |-> <<i, j>>, n |-> n,
                              before |-> Observed(h)[i].ils[j].spans]
        /\ UNCHANGED <<handles, recvVars, wireVars, genVars>>

\* span.Status().SetCode(v) on a span reached through h
TreeSetCode ==
    \E h \in HandleNames, v \in StatusCodes :
        /\ Held(h)
        /\ \E p \in SpanPositions(Observed(h)) :
            /\ heap' = [heap EXCEPT ![handles[h]] = SetCodeAt(@, p, v)]
            /\ lastOp' = [op |-> "SetCode", via |-> h, path |-> p, v |-> v]
        /\ UNCHANGED <<handles, recvVars, wireVars, genVars>>

NextTree ==
    \/ CopyHandle
    \/ CloneTraces
    \/ TreeResizeResourceSpans
    \/ TreeResizeInstrumentationLibrarySpans
    \/ TreeResizeSpans
    \/ TreeSetCode

SpecTree == InitTree /\ [][NextTree]_vars

\* A producer builds one tree through td with Resize alone, as
\* PerfTestDataProvider.GenerateTraces does.
BuildResizeResourceSpans ==
    \E n \in 0..MaxSeqNodes :
        /\ Store("td", ResizeResourceSpans(Observed("td"), n), MaxSeqNodes)
        /\ UNCHANGED <<handles, lastOp, recvVars, wireVars, genVars>>

BuildResizeInstrumentationLibrarySpans ==
    \E n \in 0..MaxSeqNodes, i \in 1..Len(Observed("td")) :
        /\ Store("td", ResizeInstrumentationLibrarySpans(Observed("td"), i, n),
                 MaxSeqNodes)
        /\ UNCHANGED <<handles, lastOp, recvVars, wireVars, genVars>>

BuildResizeSpans ==
    \E n \in 0..MaxSeqNodes, i \in 1..Len(Observed("td")) :
        \E j \in 1..Len(Observed("td")[i].ils) :
            /\ Store("td", ResizeSpans(Observed("td"), i, j, n), MaxSeqNodes)
            /\ UNCHANGED <<handles, lastOp, recvVars, wireVars, genVars>>

NextSeq ==
    \/ BuildResizeResourceSpans
    \/ BuildResizeInstrumentationLibrarySpans
    \/ BuildResizeSpans

SpecSeq == InitTree /\ [][NextSeq]_vars

\* -------------------------------------------------------------------- wire

\* The storage of a Traces as Go holds it: every repeated field is a slice,
\* nil or present.  A request is the slice of its ResourceSpans, each
\* [ils |-> slice], each group [spans |-> slice of spans].
SlicesOf(seqs) == {NilSlice} \cup {[present |-> TRUE, elems |-> q] : q \in seqs}

WireILSNodes(ilss) ==
    Len(ilss) + SumSeq([j \in 1..Len(ilss) |-> Len(ilss[j].spans.elems)])

RECURSIVE WireILSLists(_)
WireILSLists(n) ==
    {<<>>} \cup
    (IF n = 0 THEN {}
     ELSE UNION {{<<[spans |-> sl]>> \o rest :
                      rest \in WireILSLists(n - 1 - Len(sl.elems))} :
                    sl \in SlicesOf(SpanLists(n - 1, Statuses))})

RECURSIVE WireRSLists(_)
WireRSLists(n) ==
    {<<>>} \cup
    (IF n = 0 THEN {}
     ELSE UNION {{<<[ils |-> sl]>> \o rest :
                      rest \in WireRSLists(n - 1 - WireILSNodes(sl.elems))} :
                    sl \in SlicesOf(WireILSLists(n - 1))})

\* The trees handed to ToOtlpProtoBytes.
WireTrees == SlicesOf(WireRSLists(MaxWireNodes))

RECURSIVE Flatten(_)
Flatten(ss) == IF ss = <<>> THEN <<>> ELSE Head(ss) \o Flatten(Tail(ss))

\* A length-delimited field: key byte (field number * 8 + wire type 2),
\* length, payload.  Lengths and values stay below 128: one-byte varints.
LengthDelimited(field, payload) == <<field * 8 + 2, Len(payload)>> \o payload
\* A varint field; the zero value is not written.
VarintField(field, v) == IF v = 0 THEN <<>> ELSE <<field * 8, v>>

\* Status.Marshal: deprecated_code = 1, code = 3.
MarshalStatus(sp) ==
    VarintField(1, sp.DeprecatedCode) \o VarintField(3, sp.Code)
\* Span.Marshal: status = 15, a value field, always written.
MarshalSpan(sp) == LengthDelimited(15, MarshalStatus(sp))
\* InstrumentationLibrarySpans.Marshal: spans = 2.
MarshalILS(il) ==
    Flatten([k \in 1..Len(il.spans.elems) |->
                LengthDelimited(2, MarshalSpan(il.spans.elems[k]))])
\* ResourceSpans.Marshal: instrumentation_library_spans = 2.
MarshalRS(rs) ==
    Flatten([j \in 1..Len(rs.ils.elems) |->
                LengthDelimited(2, MarshalILS(rs.ils.elems[j]))])
\* ExportTraceServiceRequest.Marshal: resource_spans = 1.  A slice with no
\* elements, nil or not, contributes no bytes.
Marshal(r) ==
    Flatten([i \in 1..Len(r.elems) |-> LengthDelimited(1, MarshalRS(r.elems[i]))])

ErrUnexpectedEOF == "unexpected EOF"
ErrWrongWireType == "proto: wrong wireType"
ErrIllegalTag == "proto: illegal tag"
ErrEndGroup == "proto: wiretype end group for non-group"
ErrIllegalWireType == "proto: illegal wireType"
ErrUnexpectedEndOfGroup == "proto: unexpected end of group"

\* skipTrace: the index after the unknown field whose key is at b[i].
RECURSIVE SkipFrom(_, _, _)
SkipFrom(b, i, depth) ==
    IF i > Len(b) THEN [next |-> 0, err |-> ErrUnexpectedEOF]
    ELSE
        LET wt == b[i] % 8
            After(j, d) == IF d = 0 THEN [next |-> j, err |-> nil]
                           ELSE SkipFrom(b, j, d)
        IN CASE wt = 0 -> IF i + 1 > Len(b)
                          THEN [next |-> 0, err |-> ErrUnexpectedEOF]
                          ELSE After(i + 2, depth)
             [] wt = 1 -> After(i + 9, depth)
             [] wt = 2 -> IF i + 1 > Len(b)
                          THEN [next |-> 0, err |-> ErrUnexpectedEOF]
                          ELSE After(i + 2 + b[i + 1], depth)
             [] wt = 3 -> After(i + 1, depth + 1)
             [] wt = 4 -> IF depth = 0
                          THEN [next |-> 0, err |-> ErrUnexpectedEndOfGroup]
                          ELSE After(i + 1, depth - 1)
             [] wt = 5 -> After(i + 5, depth)
             [] OTHER -> [next |-> 0, err |-> ErrIllegalWireType]

\* The message fields of each message kind that the model keeps, and the
\* kind of message they hold.
ChildKind(k, field) ==
    CASE k = "Request" /\ field = 1 -> "ResourceSpans"
      [] k = "ResourceSpans" /\ field = 2 -> "InstrumentationLibrarySpans"
      [] k = "InstrumentationLibrarySpans" /\ field = 2 -> "Span"
      [] k = "Span" /\ field = 15 -> "Status"
      [] OTHER -> "none"

ZeroMessage(k) ==
    CASE k = "Request" -> NilSlice
      [] k = "ResourceSpans" -> [ils |-> NilSlice]
      [] k = "InstrumentationLibrarySpans" -> [spans |-> NilSlice]
      [] OTHER -> ZeroSpan

AppendTo(sl, x) == [present |-> TRUE, elems |-> Append(sl.elems, x)]

\* The value a sub-message is unmarshalled into: a fresh element appended
\* to the repeated field, or the span's own status.
ChildStart(k, field, m) ==
    IF k = "Span" THEN m ELSE ZeroMessage(ChildKind(k, field))

\* Message m of kind k with the sub-message c stored in its field.
WithChild(k, m, c) ==
    CASE k = "Request" -> AppendTo(m, c)
      [] k = "ResourceSpans" -> [ils |-> AppendTo(m.ils, c)]
      [] k = "InstrumentationLibrarySpans" -> [spans |-> AppendTo(m.spans, c)]
      [] OTHER -> c

\* The Unmarshal loop of message kind k over b from index i, filling m.
\* On an error the message is left as far as it was filled.
RECURSIVE UnmarshalFrom(_, _, _, _)
UnmarshalFrom(k, b, i, m) ==
    IF i > Len(b) THEN [val |-> m, err |-> nil]
    ELSE
        LET field == b[i] \div 8
            wt    == b[i] % 8
            Fail(e) == [val |-> m, err |-> e]
        IN
        IF wt = 4 THEN Fail(ErrEndGroup)
        ELSE IF field = 0 THEN Fail(ErrIllegalTag)
        ELSE IF ChildKind(k, field) # "none" THEN
            IF wt # 2 THEN Fail(ErrWrongWireType)
            ELSE IF i + 1 > Len(b) THEN Fail(ErrUnexpectedEOF)
            ELSE
                LET post == i + 2 + b[i + 1] IN
                IF post - 1 > Len(b) THEN Fail(ErrUnexpectedEOF)
                ELSE
                    LET sub == UnmarshalFrom(ChildKind(k, field),
                                   SubSeq(b, i + 2, post - 1), 1,
                                   ChildStart(k, field, m))
                        m2  == WithChild(k, m, sub.val)
                    IN IF sub.err # nil THEN [val |-> m2, err |-> sub.err]
                       ELSE UnmarshalFrom(k, b, post, m2)
        ELSE IF k = "Status" /\ field \in {1, 3} THEN
            IF wt # 0 THEN Fail(ErrWrongWireType)
            ELSE IF i + 1 > Len(b) THEN Fail(ErrUnexpectedEOF)
            ELSE UnmarshalFrom(k, b, i + 2,
                    IF field = 1
                    THEN [m EXCEPT !.DeprecatedCode = b[i + 1]]
                    ELSE [m EXCEPT !.Code = b[i + 1]])
        ELSE
            LET skip == SkipFrom(b, i, 0) IN
            IF skip.err # nil THEN Fail(skip.err)
            ELSE IF skip.next - 1 > Len(b) THEN Fail(ErrUnexpectedEOF)
            ELSE UnmarshalFrom(k, b, skip.next, m)

\* ExportTraceServiceRequest.Unmarshal into a zero request.
Unmarshal(data) == UnmarshalFrom("Request", data, 1, ZeroMessage("Request"))

\* Traces.ToOtlpProtoBytes
ToOtlpProtoBytes(td) == [bytes |-> Marshal(td.orig), err |-> nil]

\* TracesFromOtlpProtoBytes
TracesFromOtlpProtoBytesDropsRequest(data) ==
    LET u == Unmarshal(data)
    IN [td |-> NoTraces, err |-> u.err]

TracesFromOtlpProtoBytesKeepsPartial(data) ==
    LET u == Unmarshal(data)
    IN [td |-> [hasOrig |-> TRUE, orig |-> u.val], err |-> u.err]

TracesFromOtlpProtoBytes(data) ==
    LET u == Unmarshal(data)
    IN IF u.err # nil
       THEN [td |-> NoTraces, err |-> u.err]
       ELSE [td |-> [hasOrig |-> TRUE, orig |-> u.val], err |-> nil]

\* Byte values the transport can put in place of a byte: key 0, a key with
\* wire type 7, a group start, a length or value that is too large.
DamageBytes == {0, 15, 11, 100}

InitWire ==
    /\ wTree \in WireTrees
    /\ wBytes = <<>> /\ wDamage = NoDamage
    /\ wPhase = "built" /\ wResult = NoResult
    /\ RecvIdle /\ TreeIdle /\ GenIdle

\* bytes, _ := td.ToOtlpProtoBytes()
EncodeToWire ==
    /\ wPhase = "built"
    /\ wBytes' = ToOtlpProtoBytes([hasOrig |-> TRUE, orig |-> wTree]).bytes
    /\ wPhase' = "encoded"
    /\ UNCHANGED <<wTree, wDamage, wResult, recvVars, treeVars, genVars>>

\* The transport delivers only the first k bytes.
TruncateInFlight ==
    /\ wPhase = "encoded" /\ wDamage = NoDamage
    /\ \E k \in 0..Len(wBytes) - 1 :
        /\ wBytes' = SubSeq(wBytes, 1, k)
        /\ wDamage' = [kind |-> "truncated", at |-> k]
    /\ UNCHANGED <<wTree, wPhase, wResult, recvVars, treeVars, genVars>>

\* The transport delivers one byte changed.
CorruptInFlight ==
    /\ wPhase = "encoded" /\ wDamage = NoDamage
    /\ \E k \in 1..Len(wBytes), v \in DamageBytes :
        /\ wBytes[k] # v
        /\ wBytes' = [wBytes EXCEPT ![k] = v]
        /\ wDamage' = [kind |-> "corrupted", at |-> k]
    /\ UNCHANGED <<wTree, wPhase, wResult, recvVars, treeVars, genVars>>

\* td, err := TracesFromOtlpProtoBytes(bytes)
DecodeFromWire ==
    /\ wPhase = "encoded"
    /\ wResult' = TracesFromOtlpProtoBytes(wBytes)
    /\ wPhase' = "decoded"
    /\ UNCHANGED <<wTree, wBytes, wDamage, recvVars, treeVars, genVars>>

NextWire == EncodeToWire \/ TruncateInFlight \/ CorruptInFlight \/ DecodeFromWire

SpecWire == InitWire /\ [][NextWire]_vars

\* ----------------------------------------------------------- wire: claims

\* A slice as the decoder leaves it: absent when it has no elements.
CanonSlice(elems) == [present |-> elems # <<>>, elems |-> elems]

\* Tree r with every sequence kept element for element and every empty
\* sequence made absent.
Canon(r) ==
    CanonSlice([i \in 1..Len(r.elems) |->
        [ils |-> CanonSlice([j \in 1..Len(r.elems[i].ils.elems) |->
            [spans |-> CanonSlice(r.elems[i].ils.elems[j].spans.elems)]])]])

\* The byte counts at which the encoding of r ends a whole ResourceSpans
\* field: after its first 0, 1, ... elements.
TopLevelBoundaries(r) ==
    {Len(Marshal([present |-> TRUE, elems |-> SubSeq(r.elems, 1, n)])) :
        n \in 0..Len(r.elems)}

RoundTripped == wPhase = "decoded" /\ wDamage = NoDamage

\* C7 as stated: decoding the encoding of T succeeds and yields a tree equal
\* to T, an empty sequence and an absent one told apart.
C7_RoundTripExact ==
    RoundTripped =>
        /\ wResult.err = nil
        /\ wResult.td = [hasOrig |-> TRUE, orig |-> wTree]

\* C7 amended: decoding the encoding of T succeeds and yields a tree with
\* the same sequences, element for element, as T, except that an empty
\* sequence of T comes back absent: the encoding has no bytes for either.
C7_RoundTripUpToAbsent ==
    RoundTripped =>
        /\ wResult.err = nil
        /\ wResult.td = [hasOrig |-> TRUE, orig |-> Canon(wTree)]

\* A round trip of a tree that holds a span whose two status codes are not
\* zero and no empty sequence: the decoded tree is the tree itself.
C7_Witness ==
    /\ RoundTripped
    /\ wResult.err = nil
    /\ Len(wTree.elems) > 0
    /\ \E i \in 1..Len(wTree.elems) :
        /\ wTree.elems[i].ils.present
        /\ \E j \in 1..Len(wTree.elems[i].ils.elems) :
            \E k \in 1..Len(wTree.elems[i].ils.elems[j].spans.elems) :
                wTree.elems[i].ils.elems[j].spans.elems[k] =
                    [Code |-> STATUS_CODE_ERROR,
                     DeprecatedCode |-> DEPRECATED_STATUS_CODE_UNKNOWN_ERROR]
    /\ wResult.td.orig = wTree

\* C8: TracesFromOtlpProtoBytes returns a non-nil error exactly when
\* decoding fails, and then a Traces with no storage at all; with a nil
\* error it returns the whole decoded message, which encodes to bytes that
\* decode to the same message again.  Bytes cut inside a ResourceSpans
\* field are always a failure.
C8_DecodeAllOrNothing ==
    wPhase = "decoded" =>
        LET u == Unmarshal(wBytes) IN
        /\ (wResult.err # nil) <=> (u.err # nil)
        /\ wResult.err # nil => wResult.td = NoTraces /\ wResult.err = u.err
        /\ wResult.err = nil =>
            /\ wResult.td = [hasOrig |-> TRUE, orig |-> u.val]
            /\ Unmarshal(Marshal(wResult.td.orig)) = [val |-> u.val, err |-> nil]
        /\ (wDamage.kind = "truncated" /\ wDamage.at \notin TopLevelBoundaries(wTree))
                => wResult.err # nil

\* Decoding failed after part of the message had been read: the error is
\* returned with a Traces that holds none of it.
C8_Witness ==
    /\ wPhase = "decoded"
    /\ wResult.err # nil
    /\ wResult.td = NoTraces
    /\ Unmarshal(wBytes).val.present
    /\ wDamage.kind = "truncated"

\* ---------------------------------------------------------- pdata: claims

\* The sequence the last Resize was applied to, as it is now.
Resized ==
    LET t == Observed(lastOp.via)
        p == lastOp.path
    IN CASE lastOp.level = "ResourceSpans" -> t
         [] lastOp.level = "InstrumentationLibrarySpans" -> t[p[1]].ils
         [] lastOp.level = "Spans" -> t[p[1]].ils[p[2]].spans

\* The zero value of the elements of the sequence the last Resize was
\* applied to.
ZeroOfResized ==
    CASE lastOp.level = "ResourceSpans" -> ZeroRS
      [] lastOp.level = "InstrumentationLibrarySpans" -> ZeroILS
      [] lastOp.level = "Spans" -> ZeroSpan

Mutates(o) == o.op \in {"Resize", "SetCode"}

\* C6: once td.Clone() has been taken, a mutation made through the clone
\* (a Resize of any nested sequence, a SetCode on any span) leaves the tree
\* observable through td unchanged, and a mutation made through td or its
\* by-value copy leaves the tree observable through the clone unchanged;
\* td and its by-value copy always show the same tree.
C6_CloneIndependence ==
    [][Mutates(lastOp') =>
        /\ lastOp'.via = "clone" => Observed("td")' = Observed("td")
        /\ (lastOp'.via \in {"td", "copy"} /\ Held("clone")) =>
                Observed("clone")' = Observed("clone")
        /\ (lastOp'.via \in {"td", "copy"} /\ Held("copy")) =>
                Observed("td")' = Observed("copy")'
      ]_vars

\* A span code was set through the clone, the clone now differs from td,
\* and td's by-value copy is held too.
C6_Witness ==
    /\ Held("clone") /\ Held("copy")
    /\ lastOp.op = "SetCode" /\ lastOp.via = "clone"
    /\ Observed("clone") # Observed("td")
    /\ Observed("copy") = Observed("td")
    /\ SpanPositions(Observed("td")) # {}

\* C9: in every state reached by Resize operations on the three nested
\* sequences, SpanCount() is the number of spans in the tree: the sum of
\* Spans().Len() over every group of every ResourceSpans, 0 for the empty
\* tree.
C9_SpanCountIsTotal ==
    LET t == Observed("td") IN
    /\ SpanCount(t) = Cardinality(SpanPositions(t))
    /\ t = <<>> => SpanCount(t) = 0

\* 2 ResourceSpans, each with 1 group of 3 spans: SpanCount() is 6.
C9_Witness ==
    LET t == Observed("td") IN
    /\ Len(t) = 2
    /\ \A i \in 1..2 : Len(t[i].ils) = 1 /\ Len(t[i].ils[1].spans) = 3
    /\ SpanCount(t) = 6

\* C10: after S.Resize(n) on a sequence of old length m, S.Len() = n, the
\* elements at indices below min(m, n) are the ones that were there, and
\* every element at an index from m up to n is the zero value.
C10_ResizeInvariants ==
    lastOp.op = "Resize" =>
        LET m == Len(lastOp.before) IN
        /\ Len(Resized) = lastOp.n
        /\ \A i \in 1..lastOp.n :
            Resized[i] = IF i <= m THEN lastOp.before[i] ELSE ZeroOfResized

\* A Resize grew a sequence whose first element was not the zero value.
C10_Witness ==
    /\ lastOp.op = "Resize"
    /\ Len(lastOp.before) > 0
    /\ lastOp.n > Len(lastOp.before)
    /\ lastOp.before[1] # ZeroOfResized
    /\ Resized[1] = lastOp.before[1]
    /\ Resized[lastOp.n] = ZeroOfResized

\* ----------------------------------------------------------------- metrics
\* One Metric and its oneof Data field (the metric schema's oneofDataField).
\* The payload of every variant is its DataPoints sequence; a data point is
\* modelled by its Value.

\* Upper bound on the n of DataPoints().Resize(n) calls made directly and on
\* the index of the data points SetValue is called on.
MaxDataPoints == 2

\* The variants of Data, in the schema's declaration order.
MetricDataTypes ==
    {"IntGauge", "DoubleGauge", "IntSum", "DoubleSum", "IntHistogram",
     "DoubleHistogram", "Summary"}

\* GenerateMetrics: "Generate 7 data points per metric".
dataPointsPerMetric == 7

\* Value of a zero data point, and the schema's non-zero test value.
ZeroDataPoint == 0
TestValue == -17

\* What reading the accessor of a variant that is not the stored one gives:
\* no payload (the accessor's type assertion fails).
NotActive == [active |-> FALSE, dps |-> <<>>]

\* Metric.SetDataType(ty): installs an empty payload of variant ty.
SetDataType(m, ty) == [DataType |-> ty, dps |-> <<>>]

\* Metric.IntGauge(), Metric.DoubleGauge(), ...: the accessor of variant ty.
VariantAccessor(m, ty) ==
    IF m.DataType = ty THEN [active |-> TRUE, dps |-> m.dps] ELSE NotActive

\* metric.<ty>().DataPoints().Resize(n)
ResizeDataPoints(m, n) == [m EXCEPT !.dps = ResizeSlice(@, n, ZeroDataPoint)]

\* metric.<ty>().DataPoints().At(j).SetValue(v)
SetValue(m, j, v) == [m EXCEPT !.dps[j] = v]

\* The part of PerfTestDataProvider.GenerateMetrics that shapes one metric:
\* SetDataType(MetricDataTypeIntGauge), then IntGauge().DataPoints() and
\* Resize(dataPointsPerMetric).
FillIntGaugeSkipsSetDataType(m) ==
    IF VariantAccessor(m, "IntGauge").active
    THEN [metric |-> ResizeDataPoints(m, dataPointsPerMetric),
          panicked |-> FALSE]
    ELSE [metric |-> m, panicked |-> TRUE]

FillIntGauge(m) ==
    LET m1 == SetDataType(m, "IntGauge") IN
    IF VariantAccessor(m1, "IntGauge").active
    THEN [metric |-> ResizeDataPoints(m1, dataPointsPerMetric),
          panicked |-> FALSE]
    ELSE [metric |-> m1, panicked |-> TRUE]

\* A Metric fresh from MetricSlice.Resize: the zero value.
InitMetric ==
    /\ MetricIdle
    /\ RecvIdle /\ TreeIdle /\ WireIdle /\ CounterIdle /\ PerfIdle /\ ProvIdle
    /\ FactIdle

OtherThanMetric ==
    <<recvVars, treeVars, wireVars, counterVars, perfVars, provVars, factVars>>

MetricSetDataType ==
    \E ty \in MetricDataTypes :
        /\ metric' = SetDataType(metric, ty)
        /\ mPrev' = metric.dps
        /\ mOp' = [op |-> "SetDataType", ty |-> ty]
        /\ UNCHANGED OtherThanMetric

\* Reading one variant accessor.
MetricRead ==
    \E ty \in MetricDataTypes :
        /\ mOp' = [op |-> "Read", ty |-> ty,
                   result |-> VariantAccessor(metric, ty)]
        /\ UNCHANGED <<metric, mPrev, OtherThanMetric>>

\* Resizing the data points reached through the accessor of variant ty; the
\* call panics, and changes nothing, when ty is not the stored variant.
MetricResizeDataPoints ==
    \E ty \in MetricDataTypes, n \in 0..MaxDataPoints :
        LET a == VariantAccessor(metric, ty) IN
        /\ metric' = IF a.active THEN ResizeDataPoints(metric, n) ELSE metric
        /\ mOp' = [op |-> "Resize", ty |-> ty, panicked |-> ~a.active]
        /\ UNCHANGED <<mPrev, OtherThanMetric>>

\* Setting the value of data point j reached through the accessor of ty.
MetricSetValue ==
    \E ty \in MetricDataTypes :
        LET a == VariantAccessor(metric, ty) IN
        /\ a.active
        /\ \E j \in 1..Len(a.dps) :
            /\ j <= MaxDataPoints
            /\ metric' = SetValue(metric, j, TestValue)
            /\ mOp' = [op |-> "SetValue", ty |-> ty, panicked |-> FALSE]
        /\ UNCHANGED <<mPrev, OtherThanMetric>>

\* The data provider shapes the metric.
MetricFillIntGauge ==
    LET f == FillIntGauge(metric) IN
    /\ metric' = f.metric
    /\ mPrev' = metric.dps
    /\ mOp' = [op |-> "Fill", ty |-> "IntGauge", panicked |-> f.panicked]
    /\ UNCHANGED OtherThanMetric

NextMetric ==
    \/ MetricSetDataType
    \/ MetricRead
    \/ MetricResizeDataPoints
    \/ MetricSetValue
    \/ MetricFillIntGauge

SpecMetric == InitMetric /\ [][NextMetric]_vars

\* --------------------------------------------------------- metrics: claims
\* The variants whose accessor yields a payload.
ActiveVariants(m) == {ty \in MetricDataTypes : VariantAccessor(m, ty).active}

MaxProducers == 2
MaxItemsPerBatch == 2
MaxCalls == 3

Producers == 1..MaxProducers

\* atomic.Uint64.Inc: adds one and returns the new value, in one step.
IncLostUpdate(c) == [val |-> c, ret |-> c]

Inc(c) == [val |-> c + 1, ret |-> c + 1]

\* traceData as GenerateTraces shapes it before the loop: one ResourceSpans,
\* one InstrumentationLibrarySpans, ItemsPerBatch spans.
NewTraceData(n) ==
    ResizeSpans(
        ResizeInstrumentationLibrarySpans(
            ResizeResourceSpans(NewTraces, 1), 1, 1), 1, 1, n)

\* The span after the loop body: the two sequence numbers among its
\* attributes.
LoadGeneratorSpan(span, traceID, spanID) ==
    [Code |-> span.Code, DeprecatedCode |-> span.DeprecatedCode,
     span_seq_num |-> spanID, trace_seq_num |-> traceID]

IdleProducer == [pc |-> "idle", traceID |-> 0, i |-> 0, traceData |-> NewTraces]

InFlight == {p \in Producers : producers[p].pc # "idle"}

InitPerf ==
    /\ CounterIdle
    /\ options \in [ItemsPerBatch : 0..MaxItemsPerBatch]
    /\ producers = [p \in Producers |-> IdleProducer]
    /\ completed = <<>>
    /\ RecvIdle /\ TreeIdle /\ WireIdle /\ MetricIdle /\ ProvIdle /\ FactIdle

OtherThanPerf == <<recvVars, treeVars, wireVars, metricVars, provVars, factVars>>

\* GenerateTraces up to traceID := dp.batchesGenerated.Inc().
PerfGenerateTracesEnter(p) ==
    /\ producers[p].pc = "idle"
    /\ Len(completed) + Cardinality(InFlight) < MaxCalls
    /\ LET inc == Inc(batchesGenerated) IN
        /\ batchesGenerated' = inc.val
        /\ producers' = [producers EXCEPT ![p] =
                [pc |-> "loop", traceID |-> inc.ret, i |-> 0,
                 traceData |-> NewTraceData(options.ItemsPerBatch)]]
    /\ UNCHANGED <<dataItemsGenerated, options, completed, OtherThanPerf>>

\* One turn of the loop: spanID := dp.dataItemsGenerated.Inc() and the
\* writes to span i.
PerfGenerateTracesLoop(p) ==
    /\ producers[p].pc = "loop"
    /\ producers[p].i < options.ItemsPerBatch
    /\ LET inc == Inc(dataItemsGenerated)
           me  == producers[p]
       IN
        /\ dataItemsGenerated' = inc.val
        /\ producers' = [producers EXCEPT ![p] =
                [me EXCEPT !.i = me.i + 1,
                           !.traceData[1].ils[1].spans[me.i + 1] =
                               LoadGeneratorSpan(@, me.traceID, inc.ret)]]
    /\ UNCHANGED <<batchesGenerated, options, completed, OtherThanPerf>>

\* return traceData, false
PerfGenerateTracesReturn(p) ==
    /\ producers[p].pc = "loop"
    /\ producers[p].i >= options.ItemsPerBatch
    /\ completed' = Append(completed,
            [traceData |-> producers[p].traceData, done |-> FALSE,
             traceID |-> producers[p].traceID])
    /\ producers' = [producers EXCEPT ![p] = IdleProducer]
    /\ UNCHANGED <<counterVars, options, OtherThanPerf>>

NextPerf ==
    \E p \in Producers :
        \/ PerfGenerateTracesEnter(p)
        \/ PerfGenerateTracesLoop(p)
        \/ PerfGenerateTracesReturn(p)

SpecPerf == InitPerf /\ [][NextPerf]_vars

\* ------------------------------------------------- concurrent producers: claims
\* The spans of a tree, as a sequence in tree order.
RECURSIVE SpansOf(_)
SpansOf(rss) ==
    IF rss = <<>> THEN <<>>
    ELSE Flatten([j \in 1..Len(rss[1].ils) |-> rss[1].ils[j].spans])
            \o SpansOf(Tail(rss))

\* The calls made so far: the ones still running, by producer, and the
\* finished ones, by position in the order they returned.
AllCalls ==
    {<<"running", p>> : p \in InFlight} \cup
    {<<"finished", c>> : c \in 1..Len(completed)}

TraceDataOf(call) ==
    IF call[1] = "running" THEN producers[call[2]].traceData
                           ELSE completed[call[2]].traceData

TraceSeqOf(call) ==
    IF call[1] = "running" THEN producers[call[2]].traceID
                           ELSE completed[call[2]].traceID

\* How many spans of the call's tree have been numbered.
NumberedOf(call) ==
    IF call[1] = "running" THEN producers[call[2]].i
                           ELSE Len(SpansOf(completed[call[2]].traceData))

\* The numbered spans of all calls: <<call, index in its tree>>.
NumberedSpans ==
    UNION {{<<call, n>> : n \in 1..NumberedOf(call)} : call \in AllCalls}

SpanOfSlot(slot) == SpansOf(TraceDataOf(slot[1]))[slot[2]]

\* C12: under every interleaving of the producers' steps no increment is
\* lost (batchesGenerated equals the number of calls made, dataItemsGenerated
\* the number of spans numbered so far; once k calls have returned and none
\* is running, they are k and k * ItemsPerBatch), no two calls hold the same
\* trace sequence number, and no two spans of any calls hold the same span
\* sequence number; every span carries its call's trace sequence number.
C12_CountersAtomic ==
    /\ batchesGenerated = Cardinality(AllCalls)
    /\ dataItemsGenerated = Cardinality(NumberedSpans)
    /\ InFlight = {} =>
        /\ batchesGenerated = Len(completed)
        /\ dataItemsGenerated = Len(completed) * options.ItemsPerBatch
    /\ \A a, b \in AllCalls : a # b => TraceSeqOf(a) # TraceSeqOf(b)
    /\ \A x, y \in NumberedSpans :
            x # y => SpanOfSlot(x).span_seq_num # SpanOfSlot(y).span_seq_num
    /\ \A x \in NumberedSpans :
            SpanOfSlot(x).trace_seq_num = TraceSeqOf(x[1])

\* Three calls of two spans each have returned, and the calls interleaved:
\* the one that returned first holds a later trace sequence number than the
\* one that returned second, and its two span numbers are not consecutive.
C12_Witness ==
    /\ InFlight = {}
    /\ Len(completed) = 3
    /\ options.ItemsPerBatch = 2
    /\ completed[1].traceID > completed[2].traceID
    /\ LET sp == SpansOf(completed[1].traceData)
       IN sp[2].span_seq_num > sp[1].span_seq_num + 1

\* --------------------------------------------------- testbed: data providers
\* One DataProvider (PerfTestDataProvider, GoldenDataProvider or
\* FileDataProvider) called by one load generator. A Metrics tree is a
\* sequence of ResourceMetrics records [ilm], each a sequence of
\* InstrumentationLibraryMetrics records [metrics], each a sequence of Metric
\* records; a Logs tree is a sequence of ResourceLogs records [ill], each a
\* sequence of InstrumentationLibraryLogs records [logs].

\* Nodes in the contents of the golden provider's input files.
MaxGoldenNodes == 5

\* The trace ids and span ids the golden dataset draws from.
TraceIDs == {1, 2}
SpanIDs == {7}
GoldenSpans == [TraceId : TraceIDs, SpanId : SpanIDs]

ZeroRM == [ilm |-> <<>>]
ZeroILM == [metrics |-> <<>>]
ZeroRL == [ill |-> <<>>]
ZeroILL == [logs |-> <<>>]
ZeroLogRecord == [batch_index |-> 0, item_index |-> 0]

\* pdata.Metrics{} (no orig) and the Metrics wrapping a request.
NoMetrics == [hasOrig |-> FALSE, rm |-> <<>>]
MetricsOf(rms) == [hasOrig |-> TRUE, rm |-> rms]

\* Metrics.MetricAndDataPointCount: the metrics and their data points,
\* counted by walking the nested sequences.
MetricAndDataPointCount(md) ==
    LET ms == Flatten(Flatten(
                [i \in 1..Len(md.rm) |->
                    [j \in 1..Len(md.rm[i].ilm) |-> md.rm[i].ilm[j].metrics]]))
    IN [metricCount |-> Len(ms),
        dataPointCount |-> SumSeq([k \in 1..Len(ms) |-> Len(ms[k].dps)])]

\* Logs.LogRecordCount
LogRecordCount(ld) ==
    SumSeq([i \in 1..Len(ld) |->
              SumSeq([j \in 1..Len(ld[i].ill) |-> Len(ld[i].ill[j].logs)])])

\* The loop of PerfTestDataProvider.GenerateTraces from turn i on.
RECURSIVE TracesLoop(_, _, _, _, _)
TracesLoop(traceData, traceID, d, i, n) ==
    IF i >= n THEN [traceData |-> traceData, d |-> d]
    ELSE LET inc == Inc(d) IN
         TracesLoop([traceData EXCEPT ![1].ils[1].spans[i + 1] =
                        LoadGeneratorSpan(@, traceID, inc.ret)],
                    traceID, inc.val, i + 1, n)

\* PerfTestDataProvider.GenerateTraces with the counters at b and d.
PerfGenerateTraces(b, d, opts) ==
    LET inc  == Inc(b)
        loop == TracesLoop(NewTraceData(opts.ItemsPerBatch), inc.ret, d, 0,
                           opts.ItemsPerBatch)
    IN [b |-> inc.val, d |-> loop.d,
        ret |-> [kind |-> "traces", data |-> loop.traceData, done |-> FALSE]]

\* The inner loop of GenerateMetrics over the data points of one metric.
RECURSIVE DataPointsLoop(_, _, _)
DataPointsLoop(m, d, j) ==
    IF j >= dataPointsPerMetric THEN [metric |-> m, d |-> d]
    ELSE LET inc == Inc(d) IN
         DataPointsLoop(SetValue(m, j + 1, inc.ret), inc.val, j + 1)

\* The outer loop of GenerateMetrics over the metrics, from turn i on.
RECURSIVE MetricsLoop(_, _, _, _, _)
MetricsLoop(ms, b, d, i, n) ==
    IF i >= n THEN [metrics |-> ms, b |-> b, d |-> d]
    ELSE LET filled == FillIntGauge(ms[i + 1]).metric
             inc    == Inc(b)
             points == DataPointsLoop(filled, d, 0)
         IN MetricsLoop([ms EXCEPT ![i + 1] = points.metric],
                        inc.val, points.d, i + 1, n)

\* PerfTestDataProvider.GenerateMetrics
PerfGenerateMetrics(b, d, opts) ==
    LET metrics == ResizeSlice(<<>>, opts.ItemsPerBatch, ZeroMetric)
        loop == MetricsLoop(metrics, b, d, 0, opts.ItemsPerBatch)
        rms  == [ResizeSlice(<<>>, 1, ZeroRM) EXCEPT
                    ![1].ilm = [ResizeSlice(<<>>, 1, ZeroILM) EXCEPT
                                    ![1].metrics = loop.metrics]]
    IN [b |-> loop.b, d |-> loop.d,
        ret |-> [kind |-> "metrics", data |-> MetricsOf(rms), done |-> FALSE]]

\* The loop of GenerateLogs over the log records, from turn i on.
RECURSIVE LogsLoop(_, _, _, _, _)
LogsLoop(records, batchIndex, d, i, n) ==
    IF i >= n THEN [records |-> records, d |-> d]
    ELSE LET inc == Inc(d) IN
         LogsLoop([records EXCEPT ![i + 1] =
                      [batch_index |-> batchIndex, item_index |-> inc.ret]],
                  batchIndex, inc.val, i + 1, n)

\* PerfTestDataProvider.GenerateLogs
PerfGenerateLogs(b, d, opts) ==
    LET inc  == Inc(b)
        loop == LogsLoop(ResizeSlice(<<>>, opts.ItemsPerBatch, ZeroLogRecord),
                         inc.ret, d, 0, opts.ItemsPerBatch)
        logs == [ResizeSlice(<<>>, 1, ZeroRL) EXCEPT
                    ![1].ill = [ResizeSlice(<<>>, 1, ZeroILL) EXCEPT
                                    ![1].logs = loop.records]]
    IN [b |-> inc.val, d |-> loop.d,
        ret |-> [kind |-> "logs", data |-> logs, done |-> FALSE]]

\* What goldendataset.GenerateTraces / GenerateMetricDatas return for the
\* provider's files: an error, or a slice of trees.
LoadError == [err |-> TRUE, data |-> NilSlice]
Loaded(slice) == [err |-> FALSE, data |-> slice]

\* GoldenDataProvider.GenerateTraces on provider g.
GoldenGenerateTracesRestarts(g, b, d, fs) ==
    LET g1 == IF ~g.tracesGenerated.present
              THEN [g EXCEPT !.tracesGenerated =
                        IF fs.traces.err THEN NilSlice ELSE fs.traces.data]
              ELSE g
        inc == Inc(b)
    IN IF g1.tracesIndex >= Len(g1.tracesGenerated.elems)
       THEN [dp |-> [g1 EXCEPT !.tracesIndex = 0], b |-> inc.val, d |-> d,
             ret |-> [kind |-> "traces", data |-> NewTraces, done |-> TRUE]]
       ELSE LET td == g1.tracesGenerated.elems[g1.tracesIndex + 1] IN
            [dp |-> [g1 EXCEPT !.tracesIndex = @ + 1],
             b |-> inc.val, d |-> d + SpanCount(td),
             ret |-> [kind |-> "traces", data |-> td, done |-> FALSE]]

GoldenGenerateTracesCountsTrees(g, b, d, fs) ==
    LET g1 == IF ~g.tracesGenerated.present
              THEN [g EXCEPT !.tracesGenerated =
                        IF fs.traces.err THEN NilSlice ELSE fs.traces.data]
              ELSE g
        inc == Inc(b)
    IN IF g1.tracesIndex >= Len(g1.tracesGenerated.elems)
       THEN [dp |-> g1, b |-> inc.val, d |-> d,
             ret |-> [kind |-> "traces", data |-> NewTraces, done |-> TRUE]]
       ELSE LET td == g1.tracesGenerated.elems[g1.tracesIndex + 1] IN
            [dp |-> [g1 EXCEPT !.tracesIndex = @ + 1],
             b |-> inc.val, d |-> d + 1,
             ret |-> [kind |-> "traces", data |-> td, done |-> FALSE]]

GoldenGenerateTraces(g, b, d, fs) ==
    LET g1 == IF ~g.tracesGenerated.present
              THEN [g EXCEPT !.tracesGenerated =
                        IF fs.traces.err THEN NilSlice ELSE fs.traces.data]
              ELSE g
        inc == Inc(b)
    IN IF g1.tracesIndex >= Len(g1.tracesGenerated.elems)
       THEN [dp |-> g1, b |-> inc.val, d |-> d,
             ret |-> [kind |-> "traces", data |-> NewTraces, done |-> TRUE]]
       ELSE LET td == g1.tracesGenerated.elems[g1.tracesIndex + 1] IN
            [dp |-> [g1 EXCEPT !.tracesIndex = @ + 1],
             b |-> inc.val, d |-> d + SpanCount(td),
             ret |-> [kind |-> "traces", data |-> td, done |-> FALSE]]

\* GoldenDataProvider.GenerateMetrics
GoldenGenerateMetrics(g, b, d, fs) ==
    LET g1 == IF ~g.metricsGenerated.present
              THEN [g EXCEPT !.metricsGenerated = fs.metrics.data]
              ELSE g
        inc == Inc(b)
    IN IF g1.metricsIndex = Len(g1.metricsGenerated.elems)
       THEN [dp |-> g1, b |-> inc.val, d |-> d,
             ret |-> [kind |-> "metrics", data |-> NoMetrics, done |-> TRUE]]
       ELSE LET pdm == g1.metricsGenerated.elems[g1.metricsIndex + 1] IN
            [dp |-> [g1 EXCEPT !.metricsIndex = @ + 1],
             b |-> inc.val,
             d |-> d + MetricAndDataPointCount(pdm).dataPointCount,
             ret |-> [kind |-> "metrics", data |-> pdm, done |-> FALSE]]

\* GoldenDataProvider.GenerateLogs
GoldenGenerateLogs(g, b, d) ==
    [dp |-> g, b |-> b, d |-> d,
     ret |-> [kind |-> "logs", data |-> <<>>, done |-> TRUE]]

\* traceIDAndSpanIDToString: the two ids in fixed-width hexadecimal joined
\* by "-"; two keys are equal exactly when both ids are.
traceIDAndSpanIDToString(traceID, spanID) == <<traceID, spanID>>

\* populateSpansMap: the spans of the list in order, a later span taking the
\* place of an earlier one with the same key.
RECURSIVE PutAll(_, _)
PutAll(spansMap, spans) ==
    IF spans = <<>> THEN spansMap
    ELSE LET key == traceIDAndSpanIDToString(Head(spans).TraceId,
                                             Head(spans).SpanId)
         IN PutAll((key :> Head(spans)) @@ spansMap, Tail(spans))

populateSpansMap(resourceSpansList) ==
    PutAll([k \in {} |-> ZeroSpan], SpansOf(resourceSpansList))

NilSpan == [found |-> FALSE, span |-> ZeroSpan]
NilMap == [present |-> FALSE, m |-> [k \in {} |-> ZeroSpan]]

\* GoldenDataProvider.GetGeneratedSpan
GetGeneratedSpan(g, traceID, spanID) ==
    LET g1 == IF ~g.spansMap.present
              THEN [g EXCEPT !.spansMap =
                    [present |-> TRUE,
                     m |-> populateSpansMap(Flatten(g.tracesGenerated.elems))]]
              ELSE g
        key == traceIDAndSpanIDToString(traceID, spanID)
    IN [dp |-> g1,
        ret |-> IF key \in DOMAIN g1.spansMap.m
                THEN [found |-> TRUE, span |-> g1.spansMap.m[key]]
                ELSE NilSpan]

\* FileDataProvider.GenerateMetrics: the type assertion on dp.message panics
\* when the file held a traces or a logs request.
FileGenerateMetrics(f, b, d) ==
    IF f.message.dataType # "metrics"
    THEN [dp |-> f, b |-> b, d |-> d, panicked |-> TRUE,
          ret |-> [kind |-> "metrics", data |-> NoMetrics, done |-> TRUE]]
    ELSE LET md  == MetricsOf(f.message.request)
             inc == Inc(b)
         IN [dp |-> f, b |-> inc.val,
             d |-> d + MetricAndDataPointCount(md).dataPointCount,
             panicked |-> FALSE,
             ret |-> [kind |-> "metrics", data |-> md, done |-> FALSE]]

\* FileDataProvider.GenerateTraces and GenerateLogs
FileGenerateTraces(f, b, d) ==
    [dp |-> f, b |-> b, d |-> d,
     ret |-> [kind |-> "traces", data |-> NewTraces, done |-> TRUE]]

FileGenerateLogs(f, b, d) ==
    [dp |-> f, b |-> b, d |-> d,
     ret |-> [kind |-> "logs", data |-> <<>>, done |-> TRUE]]

\* The contents the golden provider's files can have, largest first cut by
\* the node budget: a dataset costs one node per tree plus the tree's nodes.
RECURSIVE GoldenDatasets(_)
GoldenDatasets(budget) ==
    IF budget < 1 THEN {<<>>}
    ELSE {<<>>} \cup
         UNION {{<<t>> \o rest :
                    rest \in GoldenDatasets(budget - 1 - NodeCount(t))} :
                t \in RSLists(budget - 1, GoldenSpans)}

\* The metrics a golden Metrics tree can hold: no variant set, or an
\* IntGauge of k zero data points; a metric costs one node plus its points.
MetricsUpTo(n) ==
    IF n < 1 THEN {}
    ELSE {ZeroMetric} \cup
         {[DataType |-> "IntGauge",
           dps |-> [j \in 1..k |-> ZeroDataPoint]] : k \in 0..(n - 1)}

RECURSIVE MetricLists(_)
MetricLists(n) ==
    {<<>>} \cup
    UNION {{<<m>> \o rest : rest \in MetricLists(n - 1 - Len(m.dps))} :
            m \in MetricsUpTo(n)}

MetricTrees(n) ==
    {MetricsOf(<<[ilm |-> <<[metrics |-> ms]>>]>>) : ms \in MetricLists(n)}

MetricTreeCost(md) ==
    1 + MetricAndDataPointCount(md).metricCount
      + MetricAndDataPointCount(md).dataPointCount

RECURSIVE GoldenMetricDatasets(_)
GoldenMetricDatasets(budget) ==
    IF budget < 1 THEN {<<>>}
    ELSE {<<>>} \cup
         UNION {{<<md>> \o rest :
                    rest \in GoldenMetricDatasets(budget - MetricTreeCost(md))} :
                md \in MetricTrees(budget - 1)}

DatasetCost(trees) ==
    SumSeq([i \in 1..Len(trees) |-> 1 + NodeCount(trees[i])])

Loads(datasets) == {LoadError} \cup {Loaded(sl) : sl \in SlicesOf(datasets)}

GoldenFiles ==
    UNION {{[traces |-> tl, metrics |-> ml] :
                ml \in Loads(GoldenMetricDatasets(
                                MaxGoldenNodes - DatasetCost(tl.data.elems)))} :
            tl \in Loads(GoldenDatasets(MaxGoldenNodes))}

\* NewPerfTestDataProvider, NewGoldenDataProvider and NewFileDataProvider.
NewPerfTestDataProvider == [kind |-> "PerfTest"]

NewGoldenDataProvider ==
    [kind |-> "Golden",
     tracesGenerated |-> NilSlice, tracesIndex |-> 0, spansMap |-> NilMap,
     metricsGenerated |-> NilSlice, metricsIndex |-> 0]

NewFileDataProvider(message) ==
    [kind |-> "File", message |-> message,
     ItemsPerBatch |->
        CASE message.dataType = "traces" -> SpanCount(message.request)
          [] message.dataType = "metrics" ->
                MetricAndDataPointCount(MetricsOf(message.request)).dataPointCount
          [] message.dataType = "logs" -> LogRecordCount(message.request)]

\* The single JSON message a FileDataProvider's file can hold.
FileMessages ==
    {[dataType |-> "traces", request |-> t] :
        t \in RSLists(MaxGoldenNodes - 3, GoldenSpans)} \cup
    {[dataType |-> "metrics", request |-> md.rm] :
        md \in MetricTrees(MaxGoldenNodes - 3)} \cup
    {[dataType |-> "logs", request |-> <<>>],
     [dataType |-> "logs",
      request |-> <<[ill |-> <<[logs |-> <<ZeroLogRecord>>]>>]>>]}

\* The three methods of the DataProvider interface, by provider kind.
GenerateTraces(p, b, d, opts, fs) ==
    CASE p.kind = "PerfTest" ->
            [dp |-> p, panicked |-> FALSE] @@ PerfGenerateTraces(b, d, opts)
      [] p.kind = "Golden" ->
            [panicked |-> FALSE] @@ GoldenGenerateTraces(p, b, d, fs)
      [] p.kind = "File" ->
            [panicked |-> FALSE] @@ FileGenerateTraces(p, b, d)

GenerateMetrics(p, b, d, opts, fs) ==
    CASE p.kind = "PerfTest" ->
            [dp |-> p, panicked |-> FALSE] @@ PerfGenerateMetrics(b, d, opts)
      [] p.kind = "Golden" ->
            [panicked |-> FALSE] @@ GoldenGenerateMetrics(p, b, d, fs)
      [] p.kind = "File" -> FileGenerateMetrics(p, b, d)

GenerateLogs(p, b, d, opts) ==
    CASE p.kind = "PerfTest" ->
            [dp |-> p, panicked |-> FALSE] @@ PerfGenerateLogs(b, d, opts)
      [] p.kind = "Golden" ->
            [panicked |-> FALSE] @@ GoldenGenerateLogs(p, b, d)
      [] p.kind = "File" ->
            [panicked |-> FALSE] @@ FileGenerateLogs(p, b, d)

\* The items of a returned batch: spans, data points or log records.
ItemCount(ret) ==
    CASE ret.kind = "traces" -> SpanCount(ret.data)
      [] ret.kind = "metrics" ->
            IF ret.data.hasOrig
            THEN MetricAndDataPointCount(ret.data).dataPointCount ELSE 0
      [] ret.kind = "logs" -> LogRecordCount(ret.data)

NoTally ==
    [calls |-> 0, traceCalls |-> 0, metricCalls |-> 0,
     batches |-> 0, items |-> 0, panicked |-> FALSE]

\* The tally after a Generate* call returned ret.
Tally(h, ret) ==
    [h EXCEPT !.calls = @ + 1,
              !.traceCalls = @ + (IF ret.kind = "traces" THEN 1 ELSE 0),
              !.metricCalls = @ + (IF ret.kind = "metrics" THEN 1 ELSE 0),
              !.batches = @ + (IF ret.done THEN 0 ELSE 1),
              !.items = @ + (IF ret.done THEN 0 ELSE ItemCount(ret))]

\* A provider of one of the three kinds, handed two fresh counters.
InitProv ==
    /\ CounterIdle
    /\ \/ /\ dp = NewPerfTestDataProvider
          /\ options \in [ItemsPerBatch : 0..MaxItemsPerBatch]
          /\ files = NoOp
       \/ /\ dp = NewGoldenDataProvider
          /\ options = [ItemsPerBatch |-> 0]
          /\ files \in GoldenFiles
       \/ /\ dp \in {NewFileDataProvider(msg) : msg \in FileMessages}
          /\ options = [ItemsPerBatch |-> 0]
          /\ files = NoOp
    /\ lastCall = NoOp
    /\ handed = NoTally
    /\ producers = <<>> /\ completed = <<>>
    /\ RecvIdle /\ TreeIdle /\ WireIdle /\ MetricIdle /\ FactIdle

OtherThanProv ==
    <<recvVars, treeVars, wireVars, metricVars, options, producers, completed,
      files, factVars>>

\* One Generate* call that returned r (or panicked).
Called(name, r) ==
    /\ dp' = r.dp
    /\ batchesGenerated' = r.b
    /\ dataItemsGenerated' = r.d
    /\ lastCall' = [call |-> name, ret |-> r.ret, panicked |-> r.panicked]
    /\ handed' = IF r.panicked THEN [handed EXCEPT !.panicked = TRUE]
                 ELSE Tally(handed, r.ret)
    /\ UNCHANGED OtherThanProv

CanCall == handed.calls < MaxCalls /\ ~handed.panicked

ProvGenerateTraces ==
    /\ CanCall
    /\ Called("GenerateTraces",
              GenerateTraces(dp, batchesGenerated, dataItemsGenerated,
                             options, files))

ProvGenerateMetrics ==
    /\ CanCall
    /\ Called("GenerateMetrics",
              GenerateMetrics(dp, batchesGenerated, dataItemsGenerated,
                              options, files))

ProvGenerateLogs ==
    /\ CanCall
    /\ Called("GenerateLogs",
              GenerateLogs(dp, batchesGenerated, dataItemsGenerated, options))

\* GetGeneratedSpan(traceID, spanID); PerfTestDataProvider and
\* FileDataProvider return nil.
ProvGetGeneratedSpan ==
    /\ ~handed.panicked
    /\ \E traceID \in TraceIDs, spanID \in SpanIDs :
        LET r == IF dp.kind = "Golden"
                 THEN GetGeneratedSpan(dp, traceID, spanID)
                 ELSE [dp |-> dp, ret |-> NilSpan]
        IN /\ dp' = r.dp
           /\ lastCall' = [call |-> "GetGeneratedSpan", traceID |-> traceID,
                           spanID |-> spanID, ret |-> r.ret]
    /\ UNCHANGED <<counterVars, handed, OtherThanProv>>

NextProv ==
    \/ ProvGenerateTraces
    \/ ProvGenerateMetrics
    \/ ProvGenerateLogs
    \/ ProvGetGeneratedSpan

SpecProv == InitProv /\ [][NextProv]_vars

\* -------------------------------------------------- data providers: claims
\* The trees GenerateTraces has handed out so far on the golden provider.
HandedOutTraces == SubSeq(dp.tracesGenerated.elems, 1, dp.tracesIndex)

\* C13: the last call being GetGeneratedSpan(traceID, spanID) on the golden
\* provider, a span it returned has that trace id and span id, and it
\* returned nil only if no span of the trees GenerateTraces has handed out
\* has them; in every state, whatever calls came before.
C13_GetGeneratedSpanFindsMatch ==
    (lastCall # NoOp /\ lastCall.call = "GetGeneratedSpan"
        /\ dp.kind = "Golden") =>
        /\ lastCall.ret.found =>
            /\ lastCall.ret.span.TraceId = lastCall.traceID
            /\ lastCall.ret.span.SpanId = lastCall.spanID
        /\ ~lastCall.ret.found =>
            \A t \in 1..Len(HandedOutTraces) :
                \A q \in SpanPositions(HandedOutTraces[t]) :
                    LET span == SpanAt(HandedOutTraces[t], q) IN
                    ~(span.TraceId = lastCall.traceID
                        /\ span.SpanId = lastCall.spanID)

\* C19: batchesGenerated equals the number of batches the Generate* calls
\* have handed out (the calls that returned done = false): each such call
\* advanced it by one, each call that returned done = true by nothing.
C19_BatchesCounted ==
    dp # NoOp => batchesGenerated = handed.batches

\* Whether every metric of the tree holds an IntGauge of n data points.
AllIntGaugeOf(md, n) ==
    \A i \in 1..Len(md.rm) : \A j \in 1..Len(md.rm[i].ilm) :
        \A k \in 1..Len(md.rm[i].ilm[j].metrics) :
            LET m == md.rm[i].ilm[j].metrics[k] IN
            /\ VariantAccessor(m, "IntGauge").active
            /\ Len(VariantAccessor(m, "IntGauge").dps) = n

\* C20: dataItemsGenerated equals the sum, over the batches returned with
\* done = false, of the batch's item count (spans, data points, log
\* records); and a batch PerfTestDataProvider returns holds exactly
\* ItemsPerBatch spans, or ItemsPerBatch metrics that are IntGauges of 7 data
\* points each, or ItemsPerBatch log records.
C20_ItemsCounted ==
    dp # NoOp =>
        /\ dataItemsGenerated = handed.items
        /\ (dp.kind = "PerfTest" /\ lastCall # NoOp
                /\ lastCall.call # "GetGeneratedSpan") =>
            LET ret == lastCall.ret IN
            /\ ~ret.done
            /\ ret.kind = "traces" => SpanCount(ret.data) = options.ItemsPerBatch
            /\ ret.kind = "metrics" =>
                /\ MetricAndDataPointCount(ret.data).metricCount
                        = options.ItemsPerBatch
                /\ AllIntGaugeOf(ret.data, 7)
                /\ MetricAndDataPointCount(ret.data).dataPointCount
                        = 7 * options.ItemsPerBatch
            /\ ret.kind = "logs" =>
                LogRecordCount(ret.data) = options.ItemsPerBatch

\* PerfTestDataProvider with ItemsPerBatch = 2 has returned a traces batch,
\* a metrics batch and a logs batch: 2 + 14 + 2 items.
C20_Witness ==
    /\ dp # NoOp /\ dp.kind = "PerfTest"
    /\ options.ItemsPerBatch = 2
    /\ handed.calls = 3 /\ handed.traceCalls = 1 /\ handed.metricCalls = 1
    /\ handed.batches = 3
    /\ dataItemsGenerated = 18

\* What the n-th call of a Generate* method must have returned and left the
\* cursor at, for a dataset of the trees in elems: the n-th tree while there
\* is one, then done with the empty value, the cursor at min(n, N).
ServedInOrder(elems, n, index, isLast, ret, empty) ==
    LET N == Len(elems) IN
    /\ index = (IF n <= N THEN n ELSE N)
    /\ index <= N
    /\ isLast =>
        IF n <= N
        THEN ~ret.done /\ ret.data = elems[n]
        ELSE ret.done /\ ret.data = empty

\* C21: once the golden provider's dataset of N trees loads, the i-th
\* GenerateTraces (resp. GenerateMetrics) call returns the i-th tree with
\* done = false for i <= N and done = true with an empty value for every
\* i > N, whatever other calls come in between; the cursor equals
\* min(calls, N), so it never passes N and done, once returned, is returned
\* by every later call.
C21_GoldenOnceInOrder ==
    (dp # NoOp /\ dp.kind = "Golden") =>
        /\ ~files.traces.err =>
            ServedInOrder(files.traces.data.elems, handed.traceCalls,
                          dp.tracesIndex,
                          lastCall # NoOp /\ lastCall.call = "GenerateTraces",
                          lastCall.ret, NewTraces)
        /\ ~files.metrics.err =>
            ServedInOrder(files.metrics.data.elems, handed.metricCalls,
                          dp.metricsIndex,
                          lastCall # NoOp /\ lastCall.call = "GenerateMetrics",
                          lastCall.ret, NoMetrics)

\* A golden provider with one traces tree and one metrics tree has handed
\* out both and has answered a second GenerateTraces call with done.
C21_Witness ==
    /\ dp # NoOp /\ dp.kind = "Golden"
    /\ ~files.traces.err /\ Len(files.traces.data.elems) = 1
    /\ ~files.metrics.err /\ Len(files.metrics.data.elems) = 1
    /\ handed.traceCalls = 2 /\ handed.metricCalls = 1
    /\ dp.tracesIndex = 1 /\ dp.metricsIndex = 1
    /\ lastCall # NoOp /\ lastCall.call = "GenerateTraces"
    /\ lastCall.ret.done

\* ---------------------------------------------- processorhelper: factory
\* NewFactory as factory_test.go uses it. A function value is modelled by
\* its name, the nil function by nil.

\* const typeStr, var defaultCfg and the functions of factory_test.go.
typeStr == "test"
defaultCfg == [TypeVal |-> typeStr, NameVal |-> typeStr]
defaultConfig == defaultCfg

createTraceProcessorFails == [processor |-> nil, err |-> "failed"]

createTraceProcessor == [processor |-> nil, err |-> nil]
createMetricsProcessor == [processor |-> nil, err |-> nil]
createLogsProcessor == [processor |-> nil, err |-> nil]
customUnmarshaler == "my error"

\* What calling the named function returns.
CallFunction(name) ==
    CASE name = "defaultConfig" -> defaultConfig
      [] name = "createTraceProcessor" -> createTraceProcessor
      [] name = "createMetricsProcessor" -> createMetricsProcessor
      [] name = "createLogsProcessor" -> createLogsProcessor
      [] name = "customUnmarshaler" -> customUnmarshaler

\* The error of a Create*Processor call for a data type the factory was
\* given no constructor for.
ErrDataTypeIsNotSupported == "telemetry type is not supported"

\* The options of the test: WithTraces(createTraceProcessor), ...
FactoryOptions ==
    {"WithTraces", "WithMetrics", "WithLogs", "WithCustomUnmarshaler"}

\* Applying one option to the factory under construction.
ApplyOption(f, opt) ==
    CASE opt = "WithTraces" ->
            [f EXCEPT !.createTraceProcessor = "createTraceProcessor"]
      [] opt = "WithMetrics" ->
            [f EXCEPT !.createMetricsProcessor = "createMetricsProcessor"]
      [] opt = "WithLogs" ->
            [f EXCEPT !.createLogsProcessor = "createLogsProcessor"]
      [] opt = "WithCustomUnmarshaler" ->
            [f EXCEPT !.customUnmarshaler = "customUnmarshaler"]

RECURSIVE ApplyOptions(_, _)
ApplyOptions(f, opts) ==
    IF opts = <<>> THEN f
    ELSE ApplyOptions(ApplyOption(f, Head(opts)), Tail(opts))

\* NewFactory(cfgType, createDefaultConfig, options...)
NewFactory(cfgType, createDefaultConfig, opts) ==
    ApplyOptions([cfgType |-> cfgType,
                  createDefaultConfig |-> createDefaultConfig,
                  createTraceProcessor |-> nil,
                  createMetricsProcessor |-> nil,
                  createLogsProcessor |-> nil,
                  customUnmarshaler |-> nil], opts)

\* factory.Type(), factory.CreateDefaultConfig()
FactoryType(f) == f.cfgType
CreateDefaultConfig(f) == CallFunction(f.createDefaultConfig)

\* factory.CreateTracesProcessor / CreateMetricsProcessor /
\* CreateLogsProcessor: the constructor's result, or an error without one.
CreateProcessor(constructor) ==
    IF constructor = nil
    THEN [processor |-> nil, err |-> ErrDataTypeIsNotSupported]
    ELSE CallFunction(constructor)

CreateTracesProcessor(f) == CreateProcessor(f.createTraceProcessor)
CreateMetricsProcessor(f) == CreateProcessor(f.createMetricsProcessor)
CreateLogsProcessor(f) == CreateProcessor(f.createLogsProcessor)

\* fu, ok := factory.(component.ConfigUnmarshaler), then fu.Unmarshal(nil, nil)
AsConfigUnmarshaler(f) ==
    IF f.customUnmarshaler = nil
    THEN [ok |-> FALSE, err |-> nil]
    ELSE [ok |-> TRUE, err |-> CallFunction(f.customUnmarshaler)]

\* The option lists: every order of every subset of the four options.
RECURSIVE OptionLists(_)
OptionLists(avail) ==
    {<<>>} \cup
    UNION {{<<o>> \o rest : rest \in OptionLists(avail \ {o})} : o \in avail}

InitFactory ==
    /\ fOptions \in OptionLists(FactoryOptions)
    /\ factory = NewFactory(typeStr, "defaultConfig", fOptions)
    /\ fCall = NoOp
    /\ RecvIdle /\ TreeIdle /\ WireIdle /\ MetricIdle /\ CounterIdle
    /\ PerfIdle /\ ProvIdle

OtherThanFactory ==
    <<recvVars, treeVars, wireVars, metricVars, counterVars, perfVars,
      provVars, fOptions, factory>>

CallType ==
    /\ fCall' = [call |-> "Type", ret |-> FactoryType(factory)]
    /\ UNCHANGED OtherThanFactory

CallCreateDefaultConfig ==
    /\ fCall' = [call |-> "CreateDefaultConfig",
                 ret |-> CreateDefaultConfig(factory)]
    /\ UNCHANGED OtherThanFactory

CallCreateTracesProcessor ==
    /\ fCall' = [call |-> "CreateTracesProcessor",
                 ret |-> CreateTracesProcessor(factory)]
    /\ UNCHANGED OtherThanFactory

CallCreateMetricsProcessor ==
    /\ fCall' = [call |-> "CreateMetricsProcessor",
                 ret |-> CreateMetricsProcessor(factory)]
    /\ UNCHANGED OtherThanFactory

CallCreateLogsProcessor ==
    /\ fCall' = [call |-> "CreateLogsProcessor",
                 ret |-> CreateLogsProcessor(factory)]
    /\ UNCHANGED OtherThanFactory

CallUnmarshal ==
    /\ fCall' = [call |-> "ConfigUnmarshaler",
                 ret |-> AsConfigUnmarshaler(factory)]
    /\ UNCHANGED OtherThanFactory

NextFactory ==
    \/ CallType
    \/ CallCreateDefaultConfig
    \/ CallCreateTracesProcessor
    \/ CallCreateMetricsProcessor
    \/ CallCreateLogsProcessor
    \/ CallUnmarshal

SpecFactory == InitFactory /\ [][NextFactory]_vars

\* ------------------------------------------------------- factory: claims
Supplied(opt) == \E n \in 1..Len(fOptions) : fOptions[n] = opt

====
